---- MODULE Spec2Model ----
(***************************************************************************)
(* Model of the auto-capture subsystem of ocr-tesseract-playground:        *)
(*   - useAutoCapture (src/core/auto-capture/useAutoCapture.ts), the       *)
(*     worker-backed coordinator, together with the detection worker       *)
(*     (detection.worker, in src/core/workers/detectionWorkerFactory.ts);  *)
(*   - AutoCaptureController (src/core/vision/opencv/                      *)
(*     AutoCaptureController.ts), the requestAnimationFrame coordinator.   *)
(* The two coordinators are alternative implementations; a behaviour       *)
(* exercises the one named by `component`.                                 *)
(*   - IdCardDetector.detect (src/core/vision/opencv/idCardDetector.ts)    *)
(*     with its native buffers, run frame after frame by its two hosts     *)
(*     (specification DetectorSpec);                                       *)
(*   - combineWords / canCombineWords of the masking engine                *)
(*     (src/core/masking/utils/maskUtils.ts, specification MaskSpec).      *)
(*   - findMaskRegions and detectDocumentType of the masking engine        *)
(*     (specifications MaskSpec and ClassifierSpec);                       *)
(*   - the scanner component (src/unnamed/part_001) with useCamera and     *)
(*     useOCR: ScannerSpec for its handlers, AutoScanSpec and              *)
(*     FairAutoScanSpec with the onCapture callback of the detection loop; *)
(*   - the VideoCapture component (src/components/VideoCapture.vue,        *)
(*     specification VideoCaptureSpec).                                    *)
(***************************************************************************)
EXTENDS Integers, Sequences, FiniteSets, TLC

\* ------------------------------------------------------------------ bounds
\* Number of workers (sessions) createWorker() may hand out in a behaviour.
MaxWorkers == 2
\* consecutiveFrames ranges over 1..MaxConsecutiveFrames.
MaxConsecutiveFrames == 3
\* How far the counter may run past consecutiveFrames before the model stops
\* delivering further found:true results (the counter is unbounded in the code).
MaxOverrun == 1
\* Clock values 0..MaxTime for AutoCaptureController (Date.now()).
MaxTime == 7
\* requestAnimationFrame callbacks the controller may have scheduled at once.
MaxRaf == 3

\* ------------------------------------------------------------------ values
NULL == 0

Idle == "idle"
Detecting == "detecting"

\* The condition of videoRef.value as runDetectionFrame and captureAndStop
\* read it: no element, or an element that is playing, paused, ended, or
\* without dimensions yet (videoWidth === 0).
VideoStates == {"null", "playing", "paused", "ended", "nodims"}

\* What a grabbed frame holds: a card the detector finds, nothing the
\* detector accepts, or pixel data cv.matFromImageData cannot turn into a
\* matrix (the call raises).
Frames == {"card", "blank", "bad"}

WorkerIds == 1..MaxWorkers

VARIABLES
  component,              \* which coordinator this behaviour instantiates
  consecutiveFrames,      \* options.consecutiveFrames
  \* ---- useAutoCapture
  status,                 \* status.value
  isProcessing,           \* isProcessing.value
  isTargetDetected,       \* isTargetDetected.value
  worker,                 \* worker.value: NULL or a worker id
  intervalId,             \* intervalId: NULL or a timer id
  consecutiveDetections,  \* consecutiveDetections
  videoRef,               \* condition of videoRef.value
  \* ---- platform: workers, message ports, interval timers
  created,                \* workers createWorker() has returned so far
  alive,                  \* workers not terminated
  detector,               \* workers whose module-level `detector` is set
  inbox,                  \* inbox[w]: messages posted to worker w, not yet handled
  outbox,                 \* outbox[w]: messages worker w posted, not yet delivered
  timers,                 \* live setInterval ids
  timersMade,             \* number of setInterval calls so far
  \* ---- AutoCaptureController
  ac_isCapturing,         \* this.isCapturing
  ac_consecutiveDetections, \* this.consecutiveDetections
  ac_lastDetectionTime,   \* this.lastDetectionTime
  ac_animationFrameId,    \* this.animationFrameId: NULL or a handle
  ac_srcMatDeleted,       \* this.srcMat has been deleted (destroy)
  progress,               \* numerator of the last value given to onDetect (value = progress / consecutiveFrames)
  raf,                    \* scheduled requestAnimationFrame callbacks (handles)
  clock,                  \* elapsed detection intervals, see Now
  \* ---- observation
  recent,                 \* found flags of the results handled in this session, oldest first (the last MaxConsecutiveFrames + 1)
  captures,               \* onCapture invocations in the current session (saturates at 2)
  missed,                 \* a result of this session reached the threshold while no video element was present
  discarded,              \* workers terminated while a detect or its result was pending
  ev,                     \* the last step taken and what it did
  \* ---- IdCardDetector and its hosts
  options,                \* this.options of the detector
  host,                   \* who calls detect: the detection worker or AutoCaptureController
  contours,               \* what findContours will deliver for the frame being grabbed
  analysed,               \* frames the host has handled so far
  result,                 \* outcome of the last frame handled, see NoResult
  heap,                   \* live native buffers, counted by kind, see EmptyHeap
  \* ---- masking engine
  words,                  \* the OCR word list
  combined,               \* what the last combineWords call returned, see NotCombined
  masked,                 \* what the calls of findMaskRegions returned, see NotMasked
  ocrText,                \* the text handed to detectDocumentType
  docType,                \* what detectDocumentType returned, see NotClassified
  \* ---- scanner component
  scanner,                \* its refs and the position of processImage, see NotScanned
  camera,                 \* useCamera's refs and its pending start() calls, see NotStarted
  \* ---- VideoCapture component
  capture                 \* its refs, its canvas and its OCR passes, see NotCaptured

hostVars == <<status, isProcessing, isTargetDetected, worker, intervalId,
              consecutiveDetections>>
platformVars == <<created, alive, detector, inbox, outbox, timers, timersMade>>
controllerVars == <<ac_isCapturing, ac_consecutiveDetections, ac_lastDetectionTime,
                    ac_animationFrameId, ac_srcMatDeleted, progress, raf, clock>>
vars == <<component, consecutiveFrames, status, isProcessing, isTargetDetected,
          worker, intervalId, consecutiveDetections, videoRef, created, alive,
          detector, inbox, outbox, timers, timersMade, ac_isCapturing,
          ac_consecutiveDetections, ac_lastDetectionTime, ac_animationFrameId,
          ac_srcMatDeleted, progress, raf, clock, recent, captures, missed,
          discarded, ev, options, host, contours, analysed, result, heap,
          words, combined, masked, ocrText, docType, scanner, camera, capture>>
detectorVars == <<options, host, contours, analysed, result, heap>>
maskVars == <<words, combined, masked, ocrText, docType>>
scannerVars == <<scanner, camera, capture>>
obsVars == <<recent, captures, missed, discarded>>
coordinatorVars == <<component, consecutiveFrames, hostVars, videoRef,
                     platformVars, controllerVars, obsVars, ev>>

\* ------------------------------------------------------------------ messages
Msg(t, f, b) == [type |-> t, frame |-> f, found |-> b]
InitMsg == Msg("init", "none", FALSE)
DetectMsg(f) == Msg("detect", f, FALSE)
InitDoneMsg == Msg("init-done", "none", FALSE)
ResultMsg(b) == Msg("detection-result", "none", b)

\* ------------------------------------------------------------------ events
\* op: the handler or step; w: the worker or handle it concerned; found: the
\* detection outcome it handled; captured: onCapture was invoked; sent: it
\* posted a message; cbLoop: the loop was still active when onCapture ran;
\* busy, was: isProcessing and status when the step began.
Ev(op, w, found, captured, sent, cbLoop) ==
  [op |-> op, w |-> w, found |-> found, captured |-> captured, sent |-> sent,
   cbLoop |-> cbLoop, busy |-> isProcessing, was |-> status]
NoEv ==
  [op |-> "none", w |-> NULL, found |-> FALSE, captured |-> FALSE,
   sent |-> FALSE, cbLoop |-> FALSE, busy |-> FALSE, was |-> "idle"]

\* Keep the last MaxConsecutiveFrames + 1 entries of a sequence.
LastN(s) ==
  IF Len(s) <= MaxConsecutiveFrames + 1 THEN s
  ELSE SubSeq(s, Len(s) - MaxConsecutiveFrames, Len(s))

\* Worker w has a detect request or its result pending in the given ports.
Pending(w, ib, ob) ==
  \/ \E i \in 1..Len(ib[w]) : ib[w][i].type = "detect"
  \/ \E i \in 1..Len(ob[w]) : ob[w][i].type = "detection-result"

\* ------------------------------------------------------------------ detector
\* IdCardDetector.detect(mat).found for the frame kinds of this model; detect
\* never throws (its pipeline runs inside try/catch).
DetectFound(f) == f = "card"

\* ------------------------------------------------------------------ platform
\* Worker.terminate(): the worker stops at once; messages queued in either
\* direction are discarded and no further message event fires for it.
\* Variant: the worker is dropped without being terminated.
terminate_missing(w, ib, ob) ==
  /\ alive' = alive
  /\ inbox' = ib
  /\ outbox' = ob
  /\ discarded' = discarded

terminate(w, ib, ob) ==
  IF w = NULL
  THEN /\ alive' = alive
       /\ inbox' = ib
       /\ outbox' = ob
       /\ discarded' = discarded
  ELSE /\ alive' = alive \ {w}
       /\ inbox' = [ib EXCEPT ![w] = <<>>]
       /\ outbox' = [ob EXCEPT ![w] = <<>>]
       /\ discarded' = IF Pending(w, ib, ob) THEN discarded \cup {w} ELSE discarded

\* Variant: the timer is left running.
clearInterval_leftRunning(id) == timers

\* if (intervalId) clearInterval(intervalId)
clearInterval(id) == timers \ {id}

\* True while the detection loop is active as an observer sees it.
LoopActive(st, tm, wk) == st = Detecting \/ tm # {} \/ wk # NULL

\* ------------------------------------------------------------------ useAutoCapture
\* Variant: stopDetect() that leaves isProcessing as it was.
stopDetect_keepsProcessing(ib, ob) ==
  /\ timers' = clearInterval(intervalId)
  /\ intervalId' = NULL
  /\ terminate(worker, ib, ob)
  /\ worker' = NULL
  /\ status' = Idle
  /\ isProcessing' = isProcessing
  /\ isTargetDetected' = FALSE
  /\ consecutiveDetections' = 0

\* stopDetect(), given the port contents at the moment of the call.
stopDetect(ib, ob) ==
  /\ timers' = clearInterval(intervalId)
  /\ intervalId' = NULL
  /\ terminate(worker, ib, ob)
  /\ worker' = NULL
  /\ status' = Idle
  /\ isProcessing' = FALSE
  /\ isTargetDetected' = FALSE
  /\ consecutiveDetections' = 0

\* Variant: startDetect() without its guard.
alreadyStarted_never == FALSE

\* if (worker.value) return
alreadyStarted == worker # NULL

\* Variant: startDetect() that enters Detecting and starts the timer at once,
\* without waiting for init-done.
StartDetect_eager ==
  /\ component = "useAutoCapture"
  /\ IF alreadyStarted
     THEN /\ ev' = Ev("startDetect", NULL, FALSE, FALSE, FALSE, FALSE)
          /\ UNCHANGED <<hostVars, platformVars, obsVars>>
     ELSE /\ Cardinality(created) < MaxWorkers
          /\ LET w == Cardinality(created) + 1 IN
             /\ created' = created \cup {w}
             /\ alive' = alive \cup {w}
             /\ worker' = w
             /\ inbox' = [inbox EXCEPT ![w] = Append(@, InitMsg)]
             /\ ev' = Ev("startDetect", w, FALSE, FALSE, FALSE, FALSE)
          /\ status' = Detecting
          /\ timersMade' = timersMade + 1
          /\ intervalId' = timersMade + 1
          /\ timers' = timers \cup {timersMade + 1}
          /\ recent' = <<>>
          /\ captures' = 0
          /\ missed' = FALSE
          /\ UNCHANGED <<isProcessing, isTargetDetected, consecutiveDetections,
                         detector, outbox, discarded>>
  /\ UNCHANGED controllerVars
  /\ UNCHANGED <<detectorVars, maskVars, scannerVars, component, consecutiveFrames, videoRef>>

\* startDetect(): no-op while a worker exists; otherwise create the worker,
\* attach onmessage and post init.
StartDetect ==
  /\ component = "useAutoCapture"
  /\ IF alreadyStarted
     THEN /\ ev' = Ev("startDetect", NULL, FALSE, FALSE, FALSE, FALSE)
          /\ UNCHANGED <<hostVars, platformVars, obsVars>>
     ELSE /\ Cardinality(created) < MaxWorkers
          /\ LET w == Cardinality(created) + 1 IN
             /\ created' = created \cup {w}
             /\ alive' = alive \cup {w}
             /\ worker' = w
             /\ inbox' = [inbox EXCEPT ![w] = Append(@, InitMsg)]
             /\ ev' = Ev("startDetect", w, FALSE, FALSE, FALSE, FALSE)
          /\ recent' = <<>>
          /\ captures' = 0
          /\ missed' = FALSE
          /\ UNCHANGED <<status, isProcessing, isTargetDetected, intervalId,
                         consecutiveDetections, detector, outbox, timers,
                         timersMade, discarded>>
  /\ UNCHANGED controllerVars
  /\ UNCHANGED <<detectorVars, maskVars, scannerVars, component, consecutiveFrames, videoRef>>

\* stopDetect() called by the owner (also the onUnmounted hook).
StopDetect ==
  /\ component = "useAutoCapture"
  /\ stopDetect(inbox, outbox)
  /\ ev' = Ev("stopDetect", worker, FALSE, FALSE, FALSE, FALSE)
  /\ UNCHANGED controllerVars
  /\ UNCHANGED <<detectorVars, maskVars, scannerVars, component, consecutiveFrames, videoRef, created, detector,
                 timersMade, recent, captures, missed>>

\* worker.onmessage, type 'init-done' (the handler attached to worker w).
OnInitDone(w) ==
  /\ component = "useAutoCapture"
  /\ outbox[w] # <<>>
  /\ Head(outbox[w]).type = "init-done"
  /\ outbox' = [outbox EXCEPT ![w] = Tail(@)]
  /\ status' = Detecting
  /\ isTargetDetected' = FALSE
  /\ consecutiveDetections' = 0
  /\ timersMade' = timersMade + 1
  /\ intervalId' = timersMade + 1
  /\ timers' = timers \cup {timersMade + 1}
  /\ ev' = Ev("init-done", w, FALSE, FALSE, FALSE, FALSE)
  /\ UNCHANGED controllerVars
  /\ UNCHANGED <<detectorVars, maskVars, scannerVars, component, consecutiveFrames, isProcessing, worker, videoRef,
                 created, alive, detector, inbox, obsVars>>

\* Variant: the capture is made but stopDetect() is not called.
captureAndStop_noStop(w, c, ob) ==
  /\ isProcessing' = FALSE
  /\ isTargetDetected' = TRUE
  /\ consecutiveDetections' = c
  /\ outbox' = ob
  /\ captures' = IF videoRef = "null" THEN captures
                 ELSE IF captures < 2 THEN captures + 1 ELSE captures
  /\ missed' = (missed \/ videoRef = "null")
  /\ ev' = Ev("detection-result", w, TRUE, videoRef # "null", FALSE,
              LoopActive(status, timers, worker))
  /\ UNCHANGED <<status, worker, intervalId, alive, inbox, timers, discarded>>

\* captureAndStop(), reached from the detection-result handler once the
\* counter value c (already incremented) is at the threshold. ob is the port
\* contents with the handled message removed. Without a video element it
\* returns at once: nothing is captured and nothing is stopped. Otherwise
\* onCapture(finalCanvas) runs first, seeing the loop as it is at that moment,
\* and stopDetect() runs after it.
captureAndStop(w, c, ob) ==
  IF videoRef = "null"
  THEN /\ isProcessing' = FALSE
       /\ isTargetDetected' = TRUE
       /\ consecutiveDetections' = c
       /\ outbox' = ob
       /\ captures' = captures
       /\ missed' = TRUE
       /\ ev' = Ev("detection-result", w, TRUE, FALSE, FALSE, FALSE)
       /\ UNCHANGED <<status, worker, intervalId, alive, inbox, timers, discarded>>
  ELSE /\ captures' = IF captures < 2 THEN captures + 1 ELSE captures
       /\ missed' = missed
       /\ ev' = Ev("detection-result", w, TRUE, TRUE, FALSE,
                   LoopActive(status, timers, worker))
       /\ stopDetect(inbox, ob)

\* Variant: a found:false result leaves the counter as it is.
countAfter_noReset(found, c) == IF found THEN c + 1 ELSE c

\* The counter after a result: found increments it, not found resets it.
countAfter(found, c) == IF found THEN c + 1 ELSE 0

\* worker.onmessage, type 'detection-result' (the handler attached to worker w).
OnDetectionResult(w) ==
  /\ component = "useAutoCapture"
  /\ outbox[w] # <<>>
  /\ Head(outbox[w]).type = "detection-result"
  /\ LET found == Head(outbox[w]).found
         ob == [outbox EXCEPT ![w] = Tail(@)]
         c == countAfter(found, consecutiveDetections)
     IN
     /\ found => consecutiveDetections < consecutiveFrames + MaxOverrun
     /\ recent' = LastN(Append(recent, found))
     /\ IF found /\ c >= consecutiveFrames
        THEN captureAndStop(w, c, ob)
        ELSE /\ isProcessing' = FALSE
             /\ isTargetDetected' = found
             /\ consecutiveDetections' = c
             /\ outbox' = ob
             /\ ev' = Ev("detection-result", w, found, FALSE, FALSE, FALSE)
             /\ UNCHANGED <<status, worker, intervalId, alive, inbox, timers,
                            captures, missed, discarded>>
  /\ UNCHANGED controllerVars
  /\ UNCHANGED <<detectorVars, maskVars, scannerVars, component, consecutiveFrames, videoRef, created, detector,
                 timersMade>>

\* Variant: the early return does not look at isProcessing.
SkipsTick_ignoresProcessing == videoRef # "playing"

\* Variant: the early return does not look at paused, ended or videoWidth.
SkipsTick_onlyMissingVideo == videoRef = "null" \/ isProcessing

\* The early return of runDetectionFrame.
SkipsTick == videoRef # "playing" \/ isProcessing

\* runDetectionFrame(), run by interval timer t. f is what the video shows
\* and ctxOk whether the 2d context of the downsampling canvas is available
\* (createDetectionCanvas throws without it, after isProcessing was set).
RunDetectionFrame(t, f, ctxOk) ==
  /\ component = "useAutoCapture"
  /\ t \in timers
  /\ IF SkipsTick
     THEN /\ ev' = Ev("tick-skip", worker, FALSE, FALSE, FALSE, FALSE)
          /\ UNCHANGED <<isProcessing, inbox>>
     ELSE /\ isProcessing' = TRUE
          /\ IF ~ctxOk
             THEN /\ ev' = Ev("tick-throw", worker, FALSE, FALSE, FALSE, FALSE)
                  /\ UNCHANGED inbox
             ELSE /\ inbox' = IF worker = NULL THEN inbox
                              ELSE [inbox EXCEPT ![worker] = Append(@, DetectMsg(f))]
                  /\ ev' = Ev("tick-send", worker, FALSE, FALSE, worker # NULL, FALSE)
  /\ UNCHANGED controllerVars
  /\ UNCHANGED <<detectorVars, maskVars, scannerVars, component, consecutiveFrames, status, isTargetDetected, worker,
                 intervalId, consecutiveDetections, videoRef, created, alive,
                 detector, outbox, timers, timersMade, obsVars>>

\* The video element changes condition (mounted, unmounted, played, paused,
\* ended, metadata not loaded).
SetVideo(v) ==
  /\ component = "useAutoCapture"
  /\ v # videoRef
  /\ videoRef' = v
  /\ ev' = Ev("video", NULL, FALSE, FALSE, FALSE, FALSE)
  /\ UNCHANGED controllerVars
  /\ UNCHANGED <<detectorVars, maskVars, scannerVars, component, consecutiveFrames, hostVars, platformVars, obsVars>>

\* ------------------------------------------------------------------ detection worker
\* self.onmessage, type 'init'.
WorkerInit(w) ==
  /\ component = "useAutoCapture"
  /\ w \in alive
  /\ inbox[w] # <<>>
  /\ Head(inbox[w]).type = "init"
  /\ inbox' = [inbox EXCEPT ![w] = Tail(@)]
  /\ detector' = detector \cup {w}
  /\ outbox' = [outbox EXCEPT ![w] = Append(@, InitDoneMsg)]
  /\ ev' = Ev("worker-init", w, FALSE, FALSE, TRUE, FALSE)
  /\ UNCHANGED controllerVars
  /\ UNCHANGED <<detectorVars, maskVars, scannerVars, component, consecutiveFrames, hostVars, videoRef, created,
                 alive, timers, timersMade, obsVars>>

\* The reply the detect branch posts for frame f, as a sequence: nothing
\* without a detector, nothing when cv.matFromImageData raises (the handler
\* ends with an uncaught error), else one detection-result.
DetectReply(w, f) ==
  IF w \notin detector THEN <<>>
  ELSE IF f = "bad" THEN <<>>
  ELSE <<ResultMsg(DetectFound(f))>>

\* self.onmessage, type 'detect'.
WorkerDetect(w) ==
  /\ component = "useAutoCapture"
  /\ w \in alive
  /\ inbox[w] # <<>>
  /\ Head(inbox[w]).type = "detect"
  /\ LET reply == DetectReply(w, Head(inbox[w]).frame) IN
     /\ inbox' = [inbox EXCEPT ![w] = Tail(@)]
     /\ outbox' = [outbox EXCEPT ![w] = @ \o reply]
     /\ ev' = Ev("worker-detect", w, DetectFound(Head(inbox[w]).frame), FALSE,
                 reply # <<>>, FALSE)
  /\ UNCHANGED controllerVars
  /\ UNCHANGED <<detectorVars, maskVars, scannerVars, component, consecutiveFrames, hostVars, videoRef, created,
                 alive, detector, timers, timersMade, obsVars>>

\* ------------------------------------------------------------------ AutoCaptureController
\* options.detectionInterval (ms).
detectionInterval == 100

\* Date.now(): the clock advances in whole intervals and starts past the
\* first one (lastDetectionTime starts at 0, wall-clock time does not).
Now == detectionInterval * (clock + 1)

\* What cap.read(this.srcMat) leaves in srcMat: a frame with a card, a frame
\* without, or an empty matrix.
ControllerFrames == {"card", "blank", "empty"}

\* The handle requestAnimationFrame returns: one not scheduled at present.
NewHandle(S) == CHOOSE n \in 1..(Cardinality(S) + 1) :
                  n \notin S /\ \A m \in 1..(n - 1) : m \in S

\* cancelAnimationFrame(id), guarded by if (this.animationFrameId).
cancelAnimationFrame(S, id) == S \ {id}

\* Variant: a not-found frame leaves the controller's counter as it is.
acCountAfter_noReset(found, c) == IF found THEN c + 1 ELSE c

\* processFrame's counter update: found increments, not found resets.
acCountAfter(found, c) == IF found THEN c + 1 ELSE 0

\* start(videoEl)
AcStart ==
  /\ component = "controller"
  /\ IF ac_isCapturing
     THEN /\ ev' = Ev("ac-start", NULL, FALSE, FALSE, FALSE, FALSE)
          /\ UNCHANGED <<controllerVars, recent, captures>>
     ELSE /\ Cardinality(raf) < MaxRaf
          /\ ac_isCapturing' = TRUE
          /\ ac_consecutiveDetections' = 0
          /\ ac_animationFrameId' = NewHandle(raf)
          /\ raf' = raf \cup {NewHandle(raf)}
          /\ recent' = <<>>
          /\ captures' = 0
          /\ ev' = Ev("ac-start", NewHandle(raf), FALSE, FALSE, FALSE, FALSE)
          /\ UNCHANGED <<ac_lastDetectionTime, ac_srcMatDeleted, progress, clock>>
  /\ UNCHANGED <<detectorVars, maskVars, scannerVars, component, consecutiveFrames, hostVars, videoRef, platformVars,
                 missed, discarded>>

\* stop(): the assignments, given the scheduled callbacks S at the call.
stop(S) ==
  /\ ac_isCapturing' = FALSE
  /\ raf' = cancelAnimationFrame(S, ac_animationFrameId)
  /\ ac_animationFrameId' = NULL
  /\ progress' = 0

\* stop() called by the owner.
AcStop ==
  /\ component = "controller"
  /\ stop(raf)
  /\ ev' = Ev("ac-stop", NULL, FALSE, FALSE, FALSE, FALSE)
  /\ UNCHANGED <<ac_consecutiveDetections, ac_lastDetectionTime, ac_srcMatDeleted,
                 clock, recent, captures>>
  /\ UNCHANGED <<detectorVars, maskVars, scannerVars, component, consecutiveFrames, hostVars, videoRef, platformVars,
                 missed, discarded>>

\* destroy(): stop(), then srcMat.delete().
AcDestroy ==
  /\ component = "controller"
  /\ stop(raf)
  /\ ac_srcMatDeleted' = TRUE
  /\ ev' = Ev("ac-destroy", NULL, FALSE, FALSE, FALSE, FALSE)
  /\ UNCHANGED <<ac_consecutiveDetections, ac_lastDetectionTime, clock, recent,
                 captures>>
  /\ UNCHANGED <<detectorVars, maskVars, scannerVars, component, consecutiveFrames, hostVars, videoRef, platformVars,
                 missed, discarded>>

\* The tail of loop(): this.animationFrameId = requestAnimationFrame(loop),
\* with S the callbacks scheduled at that moment.
reschedule(S) ==
  /\ ac_animationFrameId' = NewHandle(S)
  /\ raf' = S \cup {NewHandle(S)}

\* loop(), run as scheduled callback h: processFrame(videoEl), then the next
\* requestAnimationFrame. f is what cap.read delivers, ctxOk whether the 2d
\* context of the temporary canvas is available.
AcLoop(h, f, ctxOk) ==
  /\ component = "controller"
  /\ h \in raf
  /\ LET S == raf \ {h}
         found == DetectFound(f)
         cnt == acCountAfter(found, ac_consecutiveDetections)
     IN
     IF ~ac_isCapturing
     THEN /\ raf' = S
          /\ ev' = Ev("ac-loop-stopped", h, FALSE, FALSE, FALSE, FALSE)
          /\ UNCHANGED <<ac_isCapturing, ac_consecutiveDetections,
                         ac_lastDetectionTime, ac_animationFrameId, progress,
                         recent, captures>>
     ELSE IF Now - ac_lastDetectionTime < detectionInterval
     THEN /\ reschedule(S)
          /\ ev' = Ev("ac-loop-throttled", h, FALSE, FALSE, FALSE, FALSE)
          /\ UNCHANGED <<ac_isCapturing, ac_consecutiveDetections,
                         ac_lastDetectionTime, progress, recent, captures>>
     ELSE /\ ac_lastDetectionTime' = Now
          /\ IF ac_srcMatDeleted
             THEN \* cap.read on a deleted matrix raises: loop() ends without rescheduling
                  /\ raf' = S
                  /\ ev' = Ev("ac-loop-throw", h, FALSE, FALSE, FALSE, FALSE)
                  /\ UNCHANGED <<ac_isCapturing, ac_consecutiveDetections,
                                 ac_animationFrameId, progress, recent, captures>>
             ELSE IF f = "empty"
             THEN /\ reschedule(S)
                  /\ ev' = Ev("ac-loop-empty", h, FALSE, FALSE, FALSE, FALSE)
                  /\ UNCHANGED <<ac_isCapturing, ac_consecutiveDetections,
                                 progress, recent, captures>>
             ELSE /\ ac_consecutiveDetections' = cnt
                  /\ recent' = LastN(Append(recent, found))
                  /\ IF cnt >= consecutiveFrames
                     THEN \* this.stop(), onCapture if the context exists, then loop() reschedules
                          /\ ac_isCapturing' = FALSE
                          /\ progress' = 0
                          /\ reschedule(cancelAnimationFrame(S, ac_animationFrameId))
                          /\ captures' = IF ctxOk /\ captures < 2 THEN captures + 1
                                         ELSE captures
                          /\ ev' = Ev("ac-loop-result", h, found, ctxOk, FALSE, FALSE)
                     ELSE /\ progress' = cnt
                          /\ reschedule(S)
                          /\ ev' = Ev("ac-loop-result", h, found, FALSE, FALSE, FALSE)
                          /\ UNCHANGED <<ac_isCapturing, captures>>
  /\ UNCHANGED <<ac_srcMatDeleted, clock>>
  /\ UNCHANGED <<detectorVars, maskVars, scannerVars, component, consecutiveFrames, hostVars, videoRef, platformVars,
                 missed, discarded>>

\* Time passes.
AcClock ==
  /\ component = "controller"
  /\ clock < MaxTime
  /\ clock' = clock + 1
  /\ ev' = Ev("ac-clock", NULL, FALSE, FALSE, FALSE, FALSE)
  /\ UNCHANGED <<ac_isCapturing, ac_consecutiveDetections, ac_lastDetectionTime,
                 ac_animationFrameId, ac_srcMatDeleted, progress, raf, recent,
                 captures>>
  /\ UNCHANGED <<detectorVars, maskVars, scannerVars, component, consecutiveFrames, hostVars, videoRef, platformVars,
                 missed, discarded>>

\* ------------------------------------------------------------------ IdCardDetector
\* Frames a host handles in one behaviour.
MaxFrames == 2
\* Contours findContours may deliver for one frame.
MaxContours == 2

\* const minPixelArea = 1000, a local of _findBestCandidate.
minPixelArea == 1000

\* The constructor's defaults. Ratios are in thousandths (1.586), the
\* tolerance, the weights and the minimum score in hundredths (0.25, 0.4, 0.3,
\* 0.18), angles in degrees.
defaultOptions ==
  [targetRatio |-> 1586, ratioTolerance |-> 25, minAngle |-> 52,
   maxAngle |-> 110, minDetectionScore |-> 18, scoreWeightRatio |-> 40,
   scoreWeightAngle |-> 30]

\* { ...defaults, ...options }: the defaults, or the defaults with the minimum
\* score overridden to 0.30.
OptionChoices ==
  {defaultOptions, [defaultOptions EXCEPT !.minDetectionScore = 30]}

Hosts == {"worker", "controller"}

\* One contour as the per-contour loop sees it: contourArea(cnt), the
\* approximated polygon (approx.rows, isContourConvex, the corner angles
\* _getAngles computes from its points, in whole degrees) and the size of
\* its minAreaRect.
Contour(area, rows, convex, angles, width, height) ==
  [area |-> area, rows |-> rows, convex |-> convex, angles |-> angles,
   width |-> width, height |-> height]

RightAngles == <<90, 90, 90, 90>>
Card == Contour(5000, 4, TRUE, RightAngles, 793, 500)
PortraitCard == Contour(1000, 4, TRUE, RightAngles, 500, 793)
Square == Contour(5000, 4, TRUE, RightAngles, 500, 500)
TinyCard == Contour(999, 4, TRUE, RightAngles, 793, 500)
SlantedCard == Contour(5000, 4, TRUE, <<80, 100, 80, 100>>, 793, 500)
SkewedCard == Contour(5000, 4, TRUE, <<51, 129, 51, 129>>, 793, 500)
WideCorner == Contour(5000, 4, TRUE, <<111, 69, 90, 90>>, 793, 500)
Sliver == Contour(5000, 4, TRUE, <<52, 110, 88, 110>>, 1000, 500)
Pentagon == Contour(5000, 5, TRUE, RightAngles, 793, 500)
Dart == Contour(5000, 4, FALSE, RightAngles, 793, 500)

ContourShapes ==
  {Card, PortraitCard, Square, TinyCard, SlantedCard, SkewedCard, WideCorner,
   Sliver, Pentagon, Dart}

\* Where a cv call raises during one detect call: nowhere, inside the try of
\* _preprocessImage, in findContours, or while contour number `at` is
\* processed.
Fault(stage, at) == [stage |-> stage, at |-> at]
NoFault == Fault("none", 0)
FaultsFor(cs) ==
  {NoFault, Fault("preprocess", 0), Fault("findContours", 0)}
    \cup {Fault("contour", k) : k \in 1..Len(cs)}

Abs(x) == IF x < 0 THEN 0 - x ELSE x
Max(a, b) == IF a >= b THEN a ELSE b
Min(a, b) == IF a <= b THEN a ELSE b

\* Math.max(width, height) / Math.min(width, height), in thousandths.
aspectRatio(c) == (1000 * Max(c.width, c.height)) \div Min(c.width, c.height)

\* ratioScore = max(0, 1 - |aspectRatio - targetRatio| / targetRatio /
\* ratioTolerance) is RatioScoreNum / RatioDen.
RatioDen(o) == o.targetRatio * o.ratioTolerance
RatioScoreNum(o, ar) == Max(0, RatioDen(o) - 100 * Abs(ar - o.targetRatio))

\* angleScore = (sum of max(0, 1 - |angle - 90| / (90 - minAngle))) / 4 is
\* AngleScoreNum / AngleDen.
AngleDen(o) == 4 * (90 - o.minAngle)
AngleTerm(o, a) == Max(0, (90 - o.minAngle) - Abs(a - 90))
AngleScoreNum(o, angles) ==
  AngleTerm(o, angles[1]) + AngleTerm(o, angles[2])
    + AngleTerm(o, angles[3]) + AngleTerm(o, angles[4])

\* A score s of the code is the integer s * ScoreUnit(o) here.
ScoreDen(o) == RatioDen(o) * AngleDen(o)
ScoreUnit(o) == 100 * ScoreDen(o)

\* Variant: the angle term is not divided by 4.
calculateScore_angleSum(o, ar, angles) ==
  RatioScoreNum(o, ar) * AngleDen(o) * o.scoreWeightRatio
    + 4 * AngleScoreNum(o, angles) * RatioDen(o) * o.scoreWeightAngle

\* _calculateScore(aspectRatio, angles), times ScoreUnit.
calculateScore(o, ar, angles) ==
  RatioScoreNum(o, ar) * AngleDen(o) * o.scoreWeightRatio
    + AngleScoreNum(o, angles) * RatioDen(o) * o.scoreWeightAngle

\* A native buffer (cv.Mat, cv.MatVector) allocated during one detect call:
\* the variable that holds it and, for per-contour buffers, the contour index.
Buf(name, i) == <<name, i>>
NoBuf == Buf("none", 0)

\* _preprocessImage(src), with the buffers H live at the call. gray, blurred,
\* edges and morphKernel are allocated; the try block returns edges.clone()
\* unless a cv call raises; the finally block deletes gray, blurred and
\* morphKernel.
preprocessImage(fault, H) ==
  LET allocated == H \cup {Buf("gray", 0), Buf("blurred", 0), Buf("edges", 0),
                           Buf("morphKernel", 0)}
      deleted == {Buf("gray", 0), Buf("blurred", 0), Buf("morphKernel", 0)}
  IN IF fault.stage = "preprocess"
     THEN [threw |-> TRUE, ret |-> NoBuf, live |-> allocated \ deleted]
     ELSE [threw |-> FALSE, ret |-> Buf("edges.clone", 0),
           live |-> (allocated \cup {Buf("edges.clone", 0)}) \ deleted]

\* Variant: the angle check only looks at minAngle.
anglesInRange_minOnly(o, angles) ==
  \A k \in 1..4 : angles[k] >= o.minAngle

\* angles.every(a => a >= minAngle && a <= maxAngle)
anglesInRange(o, angles) ==
  \A k \in 1..4 : angles[k] >= o.minAngle /\ angles[k] <= o.maxAngle

\* Variant: the area floor is taken against half the constant.
belowAreaFloor_halved(c) == 2 * c.area < minPixelArea

\* if (cv.contourArea(cnt) < minPixelArea) continue
belowAreaFloor(c) == c.area < minPixelArea

\* Variant: a later contour with an equal score replaces the best one.
beatsBest_orEqual(score, maxScore) == score >= maxScore

\* if (score > maxScore)
beatsBest(score, maxScore) == score > maxScore

\* The state of the per-contour loop: bestCandidate (the contour index, 0 for
\* undefined), maxScore, the score computed for each contour handled (-1 when
\* _calculateScore was not reached), the live buffers, and whether a cv call
\* raised.
LoopState(best, maxScore, scores, live, threw) ==
  [best |-> best, maxScore |-> maxScore, scores |-> scores, live |-> live,
   threw |-> threw]

\* One iteration of the loop, for contour i: cnt and approx are allocated,
\* the try block runs the gates and the scoring, the finally block deletes
\* cnt and approx.
contourStep(o, cs, i, fault, st) ==
  LET c == cs[i]
      allocated == st.live \cup {Buf("cnt", i), Buf("approx", i)}
      deleted == {Buf("cnt", i), Buf("approx", i)}
      score == calculateScore(o, aspectRatio(c), c.angles)
  IN IF fault.stage = "contour" /\ fault.at = i
     THEN LoopState(st.best, st.maxScore, Append(st.scores, -1),
                    allocated \ deleted, TRUE)
     ELSE IF belowAreaFloor(c) \/ c.rows # 4 \/ ~c.convex
             \/ ~anglesInRange(o, c.angles)
     THEN LoopState(st.best, st.maxScore, Append(st.scores, -1),
                    allocated \ deleted, FALSE)
     ELSE IF beatsBest(score, st.maxScore)
     THEN \* bestCandidate?.contour.delete(); bestCandidate = { contour: approx.clone(), score }
          LoopState(i, score, Append(st.scores, score),
                    ((allocated \ {Buf("best", st.best)}) \cup {Buf("best", i)})
                      \ deleted, FALSE)
     ELSE LoopState(st.best, st.maxScore, Append(st.scores, score),
                    allocated \ deleted, FALSE)

\* for (let i = 0; i < contours.size(); i++), from contour i on.
RECURSIVE contourLoop(_, _, _, _, _)
contourLoop(o, cs, i, fault, st) ==
  IF i > Len(cs) \/ st.threw THEN st
  ELSE contourLoop(o, cs, i + 1, fault, contourStep(o, cs, i, fault, st))

\* _findBestCandidate(edges), with the buffers H live at the call: contours
\* and hierarchy are allocated, the loop runs unless findContours raises, and
\* the finally block deletes contours and hierarchy.
findBestCandidate(o, cs, fault, H) ==
  LET allocated == H \cup {Buf("contours", 0), Buf("hierarchy", 0)}
      deleted == {Buf("contours", 0), Buf("hierarchy", 0)}
      start == LoopState(0, 0 - ScoreUnit(o), <<>>, allocated, FALSE)
      end == IF fault.stage = "findContours"
             THEN [start EXCEPT !.threw = TRUE]
             ELSE contourLoop(o, cs, 1, fault, start)
  IN [end EXCEPT !.live = @ \ deleted]

\* The try and finally blocks of detect(srcMat): what was computed, whether an
\* exception reached the catch block, and the buffers live after
\* edges?.delete().
detectTry(o, cs, fault) ==
  LET pre == preprocessImage(fault, {})
      fb == findBestCandidate(o, cs, fault, pre.live)
      accepted == /\ fb.best # 0
                  /\ fb.maxScore > o.minDetectionScore * ScoreDen(o)
  IN IF pre.threw
     THEN [found |-> FALSE, candidate |-> 0, score |-> -1, scores |-> <<>>,
           raised |-> TRUE, live |-> pre.live]
     ELSE IF fb.threw
     THEN [found |-> FALSE, candidate |-> 0, score |-> -1, scores |-> fb.scores,
           raised |-> TRUE, live |-> fb.live \ {pre.ret}]
     ELSE [found |-> accepted,
           candidate |-> IF accepted THEN fb.best ELSE 0,
           score |-> IF accepted THEN fb.maxScore ELSE -1,
           scores |-> fb.scores, raised |-> FALSE, live |-> fb.live \ {pre.ret}]

\* Variant: detect without its catch block.
detect_noCatch(o, cs, fault) ==
  LET t == detectTry(o, cs, fault)
  IN [found |-> t.found, candidate |-> t.candidate, score |-> t.score,
      scores |-> t.scores, live |-> t.live, threw |-> t.raised]

\* detect(srcMat): the catch block logs and swallows whatever was raised, and
\* { found: !!bestCandidate, candidate: bestCandidate } is returned.
detect(o, cs, fault) ==
  LET t == detectTry(o, cs, fault)
  IN [found |-> t.found, candidate |-> t.candidate, score |-> t.score,
      scores |-> t.scores, live |-> t.live, threw |-> FALSE]

\* ------------------------------------------------------------------ the detector's hosts
\* The outcome of a frame: the fault injected, what detect returned, the
\* buffers of that call still live when it returned, and whether the host
\* has handled the frame at all.
NoResult ==
  [done |-> FALSE, fault |-> NoFault, found |-> FALSE, candidate |-> 0,
   score |-> -1, scores |-> <<>>, live |-> {}, threw |-> FALSE]
FrameResult(fault, r) ==
  [done |-> TRUE, fault |-> fault, found |-> r.found, candidate |-> r.candidate,
   score |-> r.score, scores |-> r.scores, live |-> r.live, threw |-> r.threw]

\* Live native buffers in the host's context: frame matrices made per frame,
\* contours of candidates detect returned, and buffers detect allocated and
\* left live other than the returned candidate's contour.
EmptyHeap == [frameMat |-> 0, candidate |-> 0, internal |-> 0]

\* The buffers of a detect call that stay live besides the returned contour.
leftBehind(r) == Cardinality(r.live \ {Buf("best", r.candidate)})

\* findContours will deliver one more contour for the frame being grabbed.
GrabContour(c) ==
  /\ component = "detector"
  /\ ~result.done
  /\ Len(contours) < MaxContours
  /\ contours' = Append(contours, c)
  /\ UNCHANGED <<options, host, analysed, result, heap>>
  /\ UNCHANGED <<coordinatorVars, maskVars, scannerVars>>

\* The detect branch of the worker's onmessage: cv.matFromImageData, detect,
\* mat.delete(), postMessage of the result. mat.delete() is skipped when
\* detect raises; the returned candidate's contour is not deleted.
WorkerFrame(fault) ==
  /\ component = "detector"
  /\ host = "worker"
  /\ ~result.done
  /\ LET r == detect(options, contours, fault) IN
     /\ result' = FrameResult(fault, r)
     /\ heap' = [frameMat |-> heap.frameMat + (IF r.threw THEN 1 ELSE 0),
                 candidate |-> heap.candidate + (IF r.found THEN 1 ELSE 0),
                 internal |-> heap.internal + leftBehind(r)]
  /\ analysed' = analysed + 1
  /\ UNCHANGED <<options, host, contours>>
  /\ UNCHANGED <<coordinatorVars, maskVars, scannerVars>>

\* processFrame from cap.read on, for a non-empty frame: this.srcMat is the
\* controller's own matrix, reused for every frame; the finally block
\* deletes the returned candidate's contour.
ControllerFrame(fault) ==
  /\ component = "detector"
  /\ host = "controller"
  /\ ~result.done
  /\ LET r == detect(options, contours, fault) IN
     /\ result' = FrameResult(fault, r)
     /\ heap' = [heap EXCEPT !.internal = @ + leftBehind(r)]
  /\ analysed' = analysed + 1
  /\ UNCHANGED <<options, host, contours>>
  /\ UNCHANGED <<coordinatorVars, maskVars, scannerVars>>

\* The host turns to the next frame.
NextFrame ==
  /\ component = "detector"
  /\ result.done
  /\ analysed < MaxFrames
  /\ contours' = <<>>
  /\ result' = NoResult
  /\ UNCHANGED <<options, host, analysed, heap>>
  /\ UNCHANGED <<coordinatorVars, maskVars, scannerVars>>

\* ------------------------------------------------------------------ masking engine
\* Words an OCR pass may hold.
MaxWords == 3

\* A word token: its text (a sequence of characters) and its bounding box.
Word(text, y0, x0) ==
  [text |-> text, bbox |-> [x0 |-> x0, y0 |-> y0, x1 |-> x0 + 20, y1 |-> y0 + 10]]
Texts ==
  {<<>>, <<"3", " ">>,
   <<"1", "2", "3", "4", "5", "6", "-">>, <<"1", "2", "3", "4", "5", "6", "7">>}
\* Where a word may stand, as <<y0, x0>>: three places side by side on the
\* first line (the third too far from the first to combine with it), and one
\* on a line below.
Places == {<<0, 0>>, <<0, 22>>, <<0, 44>>, <<30, 22>>}
Words == {Word(t, at[1], at[2]) : t \in Texts, at \in Places}

\* text.replace(/\s+/g, '')
RECURSIVE stripSpaces(_)
stripSpaces(t) ==
  IF t = <<>> THEN <<>>
  ELSE IF Head(t) = " " THEN stripSpaces(Tail(t))
  ELSE <<Head(t)>> \o stripSpaces(Tail(t))

\* canCombineWords(prevWord, currentWord). The centres are halves of the
\* sums compared here; with an empty prevWord.text the average character
\* width is width / 0: Infinity for a positive width (any gap passes), NaN or
\* -Infinity otherwise (no gap passes).
canCombineWords(prevWord, currentWord) ==
  LET gap == currentWord.bbox.x0 - prevWord.bbox.x1
      width == prevWord.bbox.x1 - prevWord.bbox.x0
      n == Len(prevWord.text)
  IN IF Abs((prevWord.bbox.y0 + prevWord.bbox.y1)
            - (currentWord.bbox.y0 + currentWord.bbox.y1)) > 2 * 10
     THEN FALSE
     ELSE IF n = 0 THEN width > 0
     ELSE gap * n <= width * 2

\* const MAX_WORDS_TO_COMBINE = 3
MAX_WORDS_TO_COMBINE == 3

\* What combineWords has before any call.
NotCombined ==
  [done |-> FALSE, startIndex |-> 0, joined |-> <<>>, combinedText |-> <<>>,
   combinedBbox |-> [x0 |-> 0, y0 |-> 0, x1 |-> 0, y1 |-> 0], nextIndex |-> 0,
   isFirstCombine |-> TRUE, broke |-> FALSE, shares |-> 0]

\* One iteration of the loop of combineWords, for words[startIndex + j]
\* (indices from 1 here). joined lists the indices of the words whose text
\* went into combinedText. shares is the index of the word whose bbox object
\* combinedBbox is, 0 for an object of its own: { ...currentWord.bbox } is a
\* copy, so the later writes to combinedBbox reach no word.
combineStep_sharedBbox(ws, startIndex, j, st) ==
  LET currentWord == ws[startIndex + j]
      cleanedText == stripSpaces(currentWord.text)
  IN IF currentWord.text = <<>> THEN st
     ELSE IF st.isFirstCombine
     THEN [st EXCEPT !.combinedText = cleanedText,
                     !.combinedBbox = currentWord.bbox,
                     !.isFirstCombine = FALSE,
                     !.shares = startIndex + j,
                     !.joined = <<startIndex + j>>,
                     !.nextIndex = startIndex + j]
     ELSE IF ~canCombineWords(ws[startIndex + j - 1], currentWord)
     THEN [st EXCEPT !.broke = TRUE]
     ELSE [st EXCEPT !.combinedText = @ \o cleanedText,
                     !.combinedBbox.x1 = currentWord.bbox.x1,
                     !.combinedBbox.y0 = Min(@, currentWord.bbox.y0),
                     !.combinedBbox.y1 = Max(@, currentWord.bbox.y1),
                     !.joined = Append(@, startIndex + j),
                     !.nextIndex = startIndex + j]
combineStep(ws, startIndex, j, st) ==
  LET currentWord == ws[startIndex + j]
      cleanedText == stripSpaces(currentWord.text)
  IN IF currentWord.text = <<>> THEN st
     ELSE IF st.isFirstCombine
     THEN [st EXCEPT !.combinedText = cleanedText,
                     !.combinedBbox = currentWord.bbox,
                     !.isFirstCombine = FALSE,
                     !.joined = <<startIndex + j>>,
                     !.nextIndex = startIndex + j]
     ELSE IF ~canCombineWords(ws[startIndex + j - 1], currentWord)
     THEN [st EXCEPT !.broke = TRUE]
     ELSE [st EXCEPT !.combinedText = @ \o cleanedText,
                     !.combinedBbox.x1 = currentWord.bbox.x1,
                     !.combinedBbox.y0 = Min(@, currentWord.bbox.y0),
                     !.combinedBbox.y1 = Max(@, currentWord.bbox.y1),
                     !.joined = Append(@, startIndex + j),
                     !.nextIndex = startIndex + j]

\* for (let j = 0; j < MAX_WORDS_TO_COMBINE && startIndex + j < words.length; j++)
RECURSIVE combineLoop(_, _, _, _)
combineLoop(ws, startIndex, j, st) ==
  IF j >= MAX_WORDS_TO_COMBINE \/ startIndex + j > Len(ws) \/ st.broke THEN st
  ELSE combineLoop(ws, startIndex, j + 1, combineStep(ws, startIndex, j, st))

\* combineWords(words, startIndex)
combineWords(ws, startIndex) ==
  combineLoop(ws, startIndex, 0,
              [NotCombined EXCEPT !.done = TRUE, !.startIndex = startIndex,
                                  !.nextIndex = startIndex])

\* The OCR pass delivers one more word.
OcrWord(w) ==
  /\ component = "masking"
  /\ ~combined.done
  /\ masked.calls = 0
  /\ Len(words) < MaxWords
  /\ words' = Append(words, w)
  /\ UNCHANGED <<combined, masked, ocrText, docType>>
  /\ UNCHANGED <<coordinatorVars, detectorVars, scannerVars>>

\* findMaskRegions calls combineWords(words, i) for an index of the list.
CombineWords(i) ==
  /\ component = "masking"
  /\ ~combined.done
  /\ i \in 1..Len(words)
  /\ masked.calls = 0
  /\ combined' = combineWords(words, i)
  /\ UNCHANGED <<words, masked, ocrText, docType>>
  /\ UNCHANGED <<coordinatorVars, detectorVars, scannerVars>>

\* A regular expression of the catalog, as the character class of each
\* position: "d" is \d, "A" is [A-Z], any other entry is that character. All
\* three are anchored at both ends and have no flags, so test() keeps no
\* state between calls.
Digits == {"0", "1", "2", "3", "4", "5", "6", "7", "8", "9"}
Capitals ==
  {"A", "B", "C", "D", "E", "F", "G", "H", "I", "J", "K", "L", "M", "N", "O", "P", "Q", "R",
   "S", "T", "U", "V", "W", "X", "Y", "Z"}
residentNumber == [i \in 1..14 |-> IF i = 7 THEN "-" ELSE "d"]
licenceNumber == [i \in 1..15 |-> IF i \in {3, 6, 13} THEN "-" ELSE "d"]
passportNumber == [i \in 1..9 |-> IF i = 1 THEN "A" ELSE "d"]

\* pat.regex.test(combinedText)
regexTest(regex, t) ==
  /\ Len(t) = Len(regex)
  /\ \A i \in 1..Len(regex) :
       CASE regex[i] = "d" -> t[i] \in Digits
         [] regex[i] = "A" -> t[i] \in Capitals
         [] OTHER -> t[i] = regex[i]

\* The document types, in the order of the keyword table: "resident" is the
\* resident registration card, "passport" the passport, "licence" the driving
\* licence.
DocumentTypes == <<"resident", "passport", "licence">>

\* patternList
patternList ==
  <<[regex |-> residentNumber, blurCount |-> 7, startIndex |-> 7,
     documents |-> {"resident", "licence"}],
    [regex |-> licenceNumber, blurCount |-> 6, startIndex |-> 6,
     documents |-> {"licence"}],
    [regex |-> passportNumber, blurCount |-> 4, startIndex |-> 5,
     documents |-> {"passport"}]>>

\* getApplicablePatterns(type)
getApplicablePatterns(type) ==
  SelectSeq(patternList, LAMBDA p : type \in p.documents)

\* A caller's pattern that asks for the whole field: blurCount 0 ("0 means
\* all" in the Pattern type), behind a start index that is not 0.
wholeField ==
  [regex |-> residentNumber, blurCount |-> 0, startIndex |-> 7, documents |-> {"resident"}]

\* The pattern lists findMaskRegions is called with.
PatternLists == {getApplicablePatterns("resident"), <<wholeField>>}

\* createMaskRegion(text, bbox, pattern). charW = totalW / text.length is a
\* fraction: x and w are kept as numerators over unit = text.length, so the
\* region is x = xTimes / unit, w = wTimes / unit.
createMaskRegion_fromLeft(t, bbox, pattern) ==
  LET totalW == bbox.x1 - bbox.x0
  IN [unit |-> Len(t),
      xTimes |-> bbox.x0 * Len(t),
      y |-> bbox.y0,
      wTimes |-> IF pattern.blurCount = 0 THEN totalW * Len(t)
                 ELSE totalW * pattern.blurCount,
      h |-> bbox.y1 - bbox.y0]
createMaskRegion(t, bbox, pattern) ==
  LET totalW == bbox.x1 - bbox.x0
  IN [unit |-> Len(t),
      xTimes |-> bbox.x0 * Len(t) + totalW * pattern.startIndex,
      y |-> bbox.y0,
      wTimes |-> IF pattern.blurCount = 0 THEN totalW * Len(t)
                 ELSE totalW * pattern.blurCount,
      h |-> bbox.y1 - bbox.y0]

\* What findMaskRegions has before any call. starts lists the indices the
\* outer loop called combineWords with, matches what combineWords returned
\* and the pattern found for each region, previous the regions of the call
\* before the last.
NotMasked ==
  [calls |-> 0, patterns |-> <<>>, regions |-> <<>>, starts |-> <<>>,
   matches |-> <<>>, previous |-> <<>>]

\* The word list after a call of combineWords that returned c: the writes to
\* combinedBbox land in the word it shares its bbox object with, if any.
wordsAfter(ws, c) ==
  IF c.shares = 0 THEN ws ELSE [ws EXCEPT ![c.shares].bbox = c.combinedBbox]

\* i = nextIndex on a match, then the loop's i++ (indices from 1 here).
nextStart_sameToken(i, c, matched) ==
  IF matched THEN c.nextIndex ELSE i + 1
nextStart(i, c, matched) ==
  IF matched THEN c.nextIndex + 1 ELSE i + 1

\* for (let i = 0; i < words.length; i++) of findMaskRegions
RECURSIVE findLoop(_, _, _, _)
findLoop(ws, ps, i, acc) ==
  IF i > Len(ws) THEN [acc EXCEPT !.words = ws]
  ELSE LET c == combineWords(ws, i)
           hits == SelectSeq(ps, LAMBDA pat : regexTest(pat.regex, c.combinedText))
           matched == c.combinedText # <<>> /\ hits # <<>>
           visited == [acc EXCEPT !.starts = Append(@, i)]
       IN findLoop(wordsAfter(ws, c), ps, nextStart(i, c, matched),
                   IF matched
                   THEN [visited EXCEPT
                           !.regions = Append(@, createMaskRegion(c.combinedText,
                                                                  c.combinedBbox, hits[1])),
                           !.matches = Append(@, [combined |-> c, pattern |-> hits[1]])]
                   ELSE visited)

\* findMaskRegions(words, patterns), with the word list as the call leaves it.
findMaskRegions(ws, ps) ==
  findLoop(ws, ps, 1, [regions |-> <<>>, starts |-> <<>>, matches |-> <<>>, words |-> ws])

\* hasMaskTarget and applyMask call findMaskRegions(words, patterns); a
\* second call is made on the same word list and pattern list.
FindMaskRegions(ps) ==
  /\ component = "masking"
  /\ ~combined.done
  /\ masked.calls < 2
  /\ masked.calls = 1 => ps = masked.patterns
  /\ LET r == findMaskRegions(words, ps)
     IN /\ masked' = [calls |-> masked.calls + 1, patterns |-> ps, regions |-> r.regions,
                      starts |-> r.starts, matches |-> r.matches,
                      previous |-> masked.regions]
        /\ words' = r.words
  /\ UNCHANGED <<combined, ocrText, docType>>
  /\ UNCHANGED <<coordinatorVars, detectorVars, scannerVars>>

\* ------------------------------------------------------------------ document classifier
\* Word texts an OCR pass may hold, at most MaxTokens of them. A text is a
\* sequence of characters; a Hangul syllable is one character, written here
\* by its romanisation ("ju" "min" "deung" "rok" "jeung" for the syllables of
\* the resident card, "yeo" "gwon" of the passport, "un" "jeon" "myeon" "heo"
\* of the driving licence).
MaxTokens == 3
Tokens ==
  {<<"ju", "min">>, <<"min", "ju">>, <<"deung", "rok">>, <<"rok", "deung">>, <<"jeung">>,
   <<"yeo", "gwon">>, <<"gwon", "yeo">>, <<"un", "jeon">>, <<"jeon", "un">>,
   <<"myeon", "heo">>, <<"heo", "myeon">>, <<"un", "jeon", "myeon", "heo">>,
   <<"p", "a", "s", "s", "p", "o", "r", "t">>, <<"n", "o">>}

\* const keywords, by document type
keywords ==
  [resident |-> <<<<"ju", "min">>, <<"deung", "rok">>, <<"jeung">>>>,
   passport |-> <<<<"P", "A", "S", "S", "P", "O", "R", "T">>, <<"yeo", "gwon">>>>,
   licence |-> <<<<"un", "jeon">>, <<"myeon", "heo">>, <<"jeung">>,
                 <<"un", "jeon", "myeon", "heo">>,
                 <<"D", "R", "I", "V", "E", "R">>,
                 <<"L", "I", "C", "E", "N", "S", "E">>>>]

\* text.toUpperCase(): Latin letters change, Hangul syllables do not.
upperOf ==
  [a |-> "A", b |-> "B", c |-> "C", d |-> "D", e |-> "E", f |-> "F", g |-> "G", h |-> "H",
   i |-> "I", j |-> "J", k |-> "K", l |-> "L", m |-> "M", n |-> "N", o |-> "O", p |-> "P",
   q |-> "Q", r |-> "R", s |-> "S", t |-> "T", u |-> "U", v |-> "V", w |-> "W", x |-> "X",
   y |-> "Y", z |-> "Z"]
toUpperCase(t) ==
  [i \in 1..Len(t) |-> IF t[i] \in DOMAIN upperOf THEN upperOf[t[i]] ELSE t[i]]

\* upper.includes(kw)
includes(upper, kw) ==
  \E i \in 0..(Len(upper) - Len(kw)) : SubSeq(upper, i + 1, i + Len(kw)) = kw

\* kw.split('').every((c) => upper.includes(c))
scattered_any(upper, kw) ==
  \E k \in 1..Len(kw) : \E i \in 1..Len(upper) : upper[i] = kw[k]
scattered(upper, kw) ==
  \A k \in 1..Len(kw) : \E i \in 1..Len(upper) : upper[i] = kw[k]

\* What one keyword adds to the sum, in halves: 1 is 2 halves, 0.5 is 1.
keywordScore(upper, kw) ==
  IF includes(upper, kw) THEN 2 ELSE IF scattered(upper, kw) THEN 1 ELSE 0

\* keywords[type].reduce(..., 0)
RECURSIVE reduceScore(_, _)
reduceScore(upper, kws) ==
  IF kws = <<>> THEN 0
  ELSE keywordScore(upper, Head(kws)) + reduceScore(upper, Tail(kws))

\* The value that stands for null where a document type is expected.
NoType == "null"

\* if (score > maxScore)
higher_orEqual(score, maxScore) == score >= maxScore
higher(score, maxScore) == score > maxScore

\* Object.keys(keywords).forEach((type) => ...): string keys are visited in
\* the order they were written.
RECURSIVE typeLoop(_, _, _)
typeLoop(upper, k, st) ==
  IF k > Len(DocumentTypes) THEN st
  ELSE LET type == DocumentTypes[k]
           score == reduceScore(upper, keywords[type])
           scored == [st EXCEPT !.scores = Append(@, score)]
       IN typeLoop(upper, k + 1,
                   IF higher(score, st.maxScore)
                   THEN [scored EXCEPT !.maxScore = score, !.detected = type]
                   ELSE scored)

\* maxScore > 0 ? detected : null
classified_moreThanOne(maxScore) == maxScore > 2
classified(maxScore) == maxScore > 0

\* What detectDocumentType has before any call.
NotClassified == [done |-> FALSE, type |-> NoType, scores |-> <<>>]

\* detectDocumentType(text), with the score of each type in halves.
detectDocumentType(t) ==
  LET st == typeLoop(toUpperCase(t), 1, [maxScore |-> 0, detected |-> NoType, scores |-> <<>>])
  IN [done |-> TRUE,
      type |-> IF classified(st.maxScore) THEN st.detected ELSE NoType,
      scores |-> st.scores]

\* words.map((w) => w.text).join(' '), one word at a time.
OcrText(tok) ==
  /\ component = "classifier"
  /\ ~docType.done
  /\ ocrText = <<>> \/ Len(SelectSeq(ocrText, LAMBDA c : c = " ")) + 1 < MaxTokens
  /\ ocrText' = IF ocrText = <<>> THEN tok ELSE ocrText \o <<" ">> \o tok
  /\ UNCHANGED <<words, combined, masked, docType>>
  /\ UNCHANGED <<coordinatorVars, detectorVars, scannerVars>>

\* applyMask and hasMaskTarget call detectDocumentType on the joined text.
DetectDocumentType ==
  /\ component = "classifier"
  /\ ~docType.done
  /\ docType' = detectDocumentType(ocrText)
  /\ UNCHANGED <<words, combined, masked, ocrText>>
  /\ UNCHANGED <<coordinatorVars, detectorVars, scannerVars>>

\* ------------------------------------------------------------------ scanner component
\* start() calls of useCamera that may be pending at once.
MaxStarts == 2
StartIds == 1..MaxStarts
\* Auto-captures whose onCapture callback may be pending at once.
MaxProbes == 1
ProbeIds == 1..MaxProbes

\* What an OCR pass may return: ok is whether recognize() resolved, blocks
\* whether data.blocks is the array of blocks extractWords walks, words the
\* word list it yields. The card page holds a keyword of the resident card
\* on one line and the two halves of a resident registration number on another.
cardPage ==
  <<Word(<<"jeung">>, 30, 22),
    Word(<<"1", "2", "3", "4", "5", "6", "-">>, 0, 0),
    Word(<<"1", "2", "3", "4", "5", "6", "7">>, 0, 22)>>
Pages == {<<>>, cardPage}
OcrOutcomes ==
  {[ok |-> FALSE, blocks |-> FALSE, words |-> <<>>],
   [ok |-> TRUE, blocks |-> FALSE, words |-> <<>>]}
    \cup {[ok |-> TRUE, blocks |-> TRUE, words |-> p] : p \in Pages}

\* A data URL of the hidden canvas: set is false for null, painted the
\* number of redaction rectangles on the canvas when it was taken.
NoImage == [set |-> FALSE, painted |-> 0]
Image(n) == [set |-> TRUE, painted |-> n]

\* The scanner before any capture. pc is where processImage stands ("idle",
\* or the await it is suspended at); painted counts the rectangles on the
\* hidden canvas; ocrWorker is whether useOCR holds a worker; maskStatus and
\* maskError are status and error of useMasking; raised is whether the
\* masking step of the attempt raised an error, outcome how the attempt ended.
\* tesseract counts the Tesseract workers createWorker has handed out (none
\* is terminated before the component is unmounted); probe is where each
\* pending onCapture callback stands ("free", the await of hasMaskTarget it
\* is suspended at, or "processImage"), owner the callback that awaits the
\* processImage attempt in progress (0 for a manual capture or an upload),
\* probed what the last hasMaskTarget call came to.
NotScanned ==
  [pc |-> "idle", isProcessing |-> FALSE, capturedImage |-> FALSE, maskedImage |-> NoImage,
   frameColor |-> "red", showPreview |-> FALSE, showMaskedOverlay |-> FALSE, painted |-> 0,
   ocrWorker |-> FALSE, maskStatus |-> "idle", maskError |-> FALSE, raised |-> FALSE,
   outcome |-> "none", tesseract |-> 0, probe |-> [p \in ProbeIds |-> "free"], owner |-> 0,
   probed |-> "none"]

\* useCamera before any start: pending is where each start() call stands
\* ("free", or the await it is suspended at), onloadedmetadata whether the
\* video element has the scanner's handler, metadata whether a loadedmetadata
\* event of the video element is due, last the last thing that happened.
NotStarted ==
  [status |-> "idle", error |-> FALSE, streamRef |-> FALSE,
   pending |-> [a \in StartIds |-> "free"], onloadedmetadata |-> FALSE, metadata |-> FALSE,
   last |-> "none"]

\* isStreaming: computed(() => status.value === CameraStatus.Streaming)
isStreaming_notIdle(c) == c.status # "idle"
isStreaming(c) == c.status = "streaming"

\* words.map((w) => w.text).join(' ')
RECURSIVE joinTexts(_)
joinTexts(ws) ==
  IF ws = <<>> THEN <<>>
  ELSE IF Len(ws) = 1 THEN ws[1].text
  ELSE ws[1].text \o <<" ">> \o joinTexts(Tail(ws))

\* applyMask(ctx, ocrData) of useMasking, on the scanner record s. extractWords
\* raises when data.blocks is not an array; paintFault is a fillRect call that
\* raises, at the last region. Whatever raises inside is caught inside:
\* status 'error', error set, and applyMask returns normally.
applyMask(s, ocrData, paintFault) ==
  LET type == detectDocumentType(joinTexts(ocrData.words)).type
      patterns == IF type = NoType THEN <<>> ELSE getApplicablePatterns(type)
      regions == findMaskRegions(ocrData.words, patterns).regions
  IN IF ~ocrData.blocks
     THEN [s EXCEPT !.maskStatus = "error", !.maskError = TRUE, !.raised = TRUE]
     ELSE IF paintFault /\ regions # <<>>
     THEN [s EXCEPT !.painted = Len(regions) - 1, !.maskStatus = "error",
                    !.maskError = TRUE, !.raised = TRUE]
     ELSE [s EXCEPT !.painted = Len(regions), !.maskStatus = "idle"]

\* initialize() of useOCR up to its await: with no worker it calls
\* Tesseract.createWorker and suspends until the worker is there; with a
\* worker it has nothing to wait for.
initializeCall(s) == IF s.ocrWorker THEN "initialize" ELSE "createWorker"

\* initialize() when its await settles at position pc: worker = the worker
\* createWorker made for this call.
initialized(s, pc) ==
  IF pc = "createWorker" THEN [s EXCEPT !.ocrWorker = TRUE, !.tesseract = @ + 1] ELSE s

\* processImage(source) up to its first await.
processImage(s, hasCanvas, hasContext) ==
  IF s.isProcessing \/ ~hasCanvas THEN s
  ELSE IF ~hasContext
  THEN [s EXCEPT !.maskedImage = NoImage, !.isProcessing = FALSE, !.outcome = "no context"]
  ELSE [s EXCEPT !.isProcessing = TRUE, !.maskedImage = NoImage, !.painted = 0,
                 !.capturedImage = TRUE, !.pc = initializeCall(s), !.raised = FALSE,
                 !.outcome = "started"]

\* The catch and finally blocks of processImage.
processImageCatch_noFinally(s) ==
  [s EXCEPT !.maskedImage = NoImage, !.frameColor = "red", !.showPreview = FALSE,
            !.pc = "idle", !.outcome = "ocr threw"]
processImageCatch(s) ==
  [s EXCEPT !.maskedImage = NoImage, !.frameColor = "red", !.showPreview = FALSE,
            !.isProcessing = FALSE, !.pc = "idle", !.outcome = "ocr threw"]

\* The rest of the try block after await applyMask, and finally; overlay is
\* videoRef.value && isStreaming.value.
processImagePublish(s, overlay) ==
  [s EXCEPT !.maskedImage = Image(s.painted), !.frameColor = "green", !.showPreview = TRUE,
            !.showMaskedOverlay = IF overlay THEN TRUE ELSE @,
            !.isProcessing = FALSE, !.pc = "idle", !.outcome = "published"]

\* startDetect() of the auto-capture coordinator, if called: creates the
\* detection worker and posts init unless a worker exists.
startDetectIf(called) ==
  IF called /\ ~alreadyStarted
  THEN LET w == Cardinality(created) + 1 IN
       /\ created' = created \cup {w}
       /\ alive' = alive \cup {w}
       /\ worker' = w
       /\ inbox' = [inbox EXCEPT ![w] = Append(@, InitMsg)]
  ELSE UNCHANGED <<created, alive, worker, inbox>>
WorkerAvailable(called) == (called /\ ~alreadyStarted) => Cardinality(created) < MaxWorkers

\* The part of startCameraAndDetection after await startCamera(), with the
\* camera as start() left it: the handler is put on the video element, and
\* startDetect() is called if the video is ready and the camera streams.
handlerSet(c) == [c EXCEPT !.onloadedmetadata = (@ \/ videoRef # "null")]
detectNow(c, ready) == videoRef # "null" /\ ready /\ isStreaming(c)

\* What the scanner leaves alone of the coordinator.
ScannerFrame ==
  UNCHANGED <<detectorVars, maskVars, component, consecutiveFrames, status, isProcessing,
              isTargetDetected, intervalId, consecutiveDetections, detector, outbox, timers,
              timersMade, controllerVars, obsVars, ev, capture>>

\* The component is mounted: the template's video element is in videoRef.
Mounted ==
  /\ component = "scanner"
  /\ videoRef = "null"
  /\ videoRef' = "nodims"
  /\ UNCHANGED <<scanner, camera, created, alive, worker, inbox>>
  /\ ScannerFrame

\* startCameraAndDetection() up to the first await inside start(). While a
\* start() is pending the new call of start() returns at once.
StartCameraAndDetection(a) ==
  /\ component = "scanner"
  /\ ~isStreaming(camera)
  /\ scanner' = [scanner EXCEPT !.capturedImage = FALSE, !.maskedImage = NoImage]
  /\ IF camera.status = "starting"
     THEN camera' = [handlerSet(camera) EXCEPT !.last = "start ignored"]
     ELSE /\ camera.pending[a] = "free"
          /\ \A b \in 1..(a - 1) : camera.pending[b] # "free"
          /\ camera' = [camera EXCEPT !.status = "starting", !.error = FALSE,
                                      !.pending[a] = "getUserMedia", !.last = "start"]
  /\ UNCHANGED <<videoRef, created, alive, worker, inbox>>
  /\ ScannerFrame

\* start(): getUserMedia settles. Resolved, the stream goes to the video
\* element and play() is awaited, or without an element the status becomes
\* Streaming; rejected, the catch block sets the error state. Whenever
\* start() ends, startCameraAndDetection goes on in the microtask that
\* follows, before any other event is handled.
GetUserMediaDone(a, ok, ready) ==
  /\ component = "scanner"
  /\ camera.pending[a] = "getUserMedia"
  /\ LET c == IF ~ok
              THEN [camera EXCEPT !.error = TRUE, !.status = "error",
                                  !.pending[a] = "free", !.last = "failed"]
              ELSE IF videoRef # "null"
              THEN [camera EXCEPT !.streamRef = TRUE, !.metadata = TRUE,
                                  !.pending[a] = "play", !.last = "stream"]
              ELSE [camera EXCEPT !.streamRef = TRUE, !.status = "streaming",
                                  !.pending[a] = "free", !.last = "streaming"]
         ended == c.pending[a] = "free"
     IN /\ WorkerAvailable(ended /\ detectNow(c, ready))
        /\ camera' = IF ended THEN handlerSet(c) ELSE c
        /\ startDetectIf(ended /\ detectNow(c, ready))
  /\ UNCHANGED <<videoRef, scanner>>
  /\ ScannerFrame

\* start(): play() settles, and startCameraAndDetection goes on.
PlayDone(a, ok, ready) ==
  /\ component = "scanner"
  /\ camera.pending[a] = "play"
  /\ LET c == IF ok
              THEN [camera EXCEPT !.status = "streaming", !.pending[a] = "free",
                                  !.last = "streaming"]
              ELSE [camera EXCEPT !.error = TRUE, !.status = "error",
                                  !.pending[a] = "free", !.last = "failed"]
     IN /\ WorkerAvailable(detectNow(c, ready))
        /\ camera' = handlerSet(c)
        /\ startDetectIf(detectNow(c, ready))
  /\ videoRef' = IF ok THEN "playing" ELSE videoRef
  /\ UNCHANGED scanner
  /\ ScannerFrame

\* The video element fires loadedmetadata: onloadedmetadata, if set, calls
\* startDetect() while the camera streams.
LoadedMetadata ==
  /\ component = "scanner"
  /\ camera.metadata
  /\ WorkerAvailable(camera.onloadedmetadata /\ isStreaming(camera))
  /\ camera' = [camera EXCEPT !.metadata = FALSE, !.last = "loadedmetadata"]
  /\ startDetectIf(camera.onloadedmetadata /\ isStreaming(camera))
  /\ UNCHANGED <<videoRef, scanner>>
  /\ ScannerFrame

\* The watcher of [status, isTargetDetected]: when the coordinator's status
\* changes, the frame colour is set again; isTargetDetected is false at
\* init-done and after stopDetect(), so the colour is red.
watchStatus(s, before, after) == IF before # after THEN [s EXCEPT !.frameColor = "red"] ELSE s

\* stop() of useCamera.
stopCamera(c) ==
  [c EXCEPT !.status = "idle", !.streamRef = FALSE, !.metadata = FALSE, !.last = "stopped"]

\* stopCameraAndDetection() with the scanner record as the caller leaves it:
\* stop() of useCamera, then stopDetect().
stopCameraAndDetection(s) ==
  /\ camera' = stopCamera(camera)
  /\ videoRef' = IF videoRef = "null" THEN "null" ELSE "paused"
  /\ stopDetect(inbox, outbox)
  /\ scanner' = watchStatus(s, status, Idle)

\* What every step of the scanner leaves alone.
ScannerRest ==
  UNCHANGED <<detectorVars, maskVars, component, consecutiveFrames, controllerVars,
              recent, captures, missed, ev, capture>>

\* stopCameraAndDetection() called by the stop button or the onUnmounted hook.
StopCameraAndDetection ==
  /\ component = "scanner"
  /\ stopCameraAndDetection(scanner)
  /\ UNCHANGED <<created, detector, timersMade>>
  /\ ScannerRest

\* The end of a processImage attempt that left the scanner record as s. When
\* the attempt was started by an onCapture callback, the callback goes on in
\* the microtask that follows: stopCameraAndDetection().
attemptEnds(s) ==
  IF s.owner = 0
  THEN /\ scanner' = s
       /\ UNCHANGED <<camera, status, isProcessing, isTargetDetected, intervalId,
                      consecutiveDetections, outbox, timers, discarded, alive, worker, inbox>>
  ELSE /\ stopCameraAndDetection([s EXCEPT !.probe[s.owner] = "free", !.owner = 0])

\* captureImageManually() (fromCamera) or the image of handleFileUpload
\* loads: processImage(source) runs up to its first await.
ProcessImage(fromCamera, hasCanvas, hasContext) ==
  /\ component = "scanner"
  /\ fromCamera => (videoRef # "null" /\ isStreaming(camera))
  /\ scanner' = processImage(scanner, hasCanvas, hasContext)
  /\ scanner' # scanner
  /\ UNCHANGED <<camera, videoRef, created, alive, worker, inbox>>
  /\ ScannerFrame

\* processImage: initializeOCR() settles. It awaits createWorker only when
\* useOCR held no worker at the call, so only then it can reject.
InitializeDone(ok) ==
  /\ component = "scanner"
  /\ scanner.pc \in {"createWorker", "initialize"}
  /\ ok \/ scanner.pc = "createWorker"
  /\ IF ok
     THEN /\ scanner' = [initialized(scanner, scanner.pc) EXCEPT !.pc = "recognize"]
          /\ UNCHANGED <<camera, videoRef, status, isProcessing, isTargetDetected, intervalId,
                         consecutiveDetections, outbox, timers, discarded, alive, worker,
                         inbox>>
     ELSE /\ attemptEnds(processImageCatch(scanner))
          /\ IF scanner.owner = 0 THEN UNCHANGED videoRef ELSE TRUE
  /\ UNCHANGED <<created, detector, timersMade>>
  /\ ScannerRest

\* processImage: recognize(canvas) settles; resolved, applyMask runs and the
\* rest of the try block follows it.
RecognizeDone(ocrData, paintFault) ==
  /\ component = "scanner"
  /\ scanner.pc = "recognize"
  /\ LET overlay == videoRef # "null" /\ isStreaming(camera)
     IN IF ~ocrData.ok
        THEN /\ attemptEnds(processImageCatch(scanner))
             /\ IF scanner.owner = 0 THEN UNCHANGED videoRef ELSE TRUE
        ELSE /\ attemptEnds(processImagePublish(applyMask(scanner, ocrData, paintFault),
                                                overlay))
             /\ IF scanner.owner = 0
                THEN videoRef' = IF overlay THEN "paused" ELSE videoRef
                ELSE TRUE
  /\ UNCHANGED <<created, detector, timersMade>>
  /\ ScannerRest

\* The detection worker handles 'init' and the coordinator its 'init-done':
\* the detector exists, status is Detecting and the interval timer runs (the
\* two handlers of the round trip, taken together).
DetectionReady(w) ==
  /\ component = "scanner"
  /\ w = worker
  /\ w \in alive
  /\ inbox[w] # <<>>
  /\ Head(inbox[w]).type = "init"
  /\ inbox' = [inbox EXCEPT ![w] = Tail(@)]
  /\ detector' = detector \cup {w}
  /\ status' = Detecting
  /\ isTargetDetected' = FALSE
  /\ consecutiveDetections' = 0
  /\ timersMade' = timersMade + 1
  /\ intervalId' = timersMade + 1
  /\ timers' = timers \cup {timersMade + 1}
  /\ scanner' = watchStatus(scanner, status, Detecting)
  /\ UNCHANGED <<camera, videoRef, isProcessing, worker, created, alive, outbox, discarded>>
  /\ ScannerRest

\* The detection-result that completes the run of found frames arrives:
\* captureAndStop() calls onCapture(finalCanvas), which runs up to the first
\* await of hasMaskTarget (initializeOCR), and then stopDetect().
AutoCapture(p) ==
  /\ component = "scanner"
  /\ status = Detecting
  /\ worker # NULL
  /\ videoRef # "null"
  /\ scanner.probe[p] = "free"
  /\ \A q \in 1..(p - 1) : scanner.probe[q] # "free"
  /\ stopDetect(inbox, outbox)
  /\ scanner' = watchStatus([scanner EXCEPT !.probe[p] = initializeCall(scanner)],
                            status, Idle)
  /\ UNCHANGED <<camera, videoRef, created, detector, timersMade>>
  /\ ScannerRest

\* hasMaskTarget: initializeOCR() settles. Rejected, hasMaskTarget and the
\* onCapture callback end with it.
ProbeInitializeDone(p, ok) ==
  /\ component = "scanner"
  /\ scanner.probe[p] \in {"createWorker", "initialize"}
  /\ ok \/ scanner.probe[p] = "createWorker"
  /\ scanner' = IF ok
                THEN [initialized(scanner, scanner.probe[p]) EXCEPT !.probe[p] = "recognize"]
                ELSE [scanner EXCEPT !.probe[p] = "free", !.probed = "threw"]
  /\ UNCHANGED <<camera, videoRef, created, alive, worker, inbox>>
  /\ ScannerFrame

\* What hasMaskTarget returns for an OCR result: "threw" when extractWords
\* raises, "no target" for false, "target" for true.
hasMaskTarget(ocrData) ==
  LET type == detectDocumentType(joinTexts(ocrData.words)).type
  IN IF ~ocrData.blocks THEN "threw"
     ELSE IF type = NoType THEN "no target"
     ELSE IF findMaskRegions(ocrData.words, getApplicablePatterns(type)).regions = <<>>
     THEN "no target"
     ELSE "target"

\* hasMaskTarget: recognize(canvas) settles. With a mask target the callback
\* calls processImage(capturedCanvas); when that returns without starting an
\* attempt the callback goes on at once with stopCameraAndDetection().
ProbeRecognizeDone(p, ocrData, hasCanvas, hasContext) ==
  /\ component = "scanner"
  /\ scanner.probe[p] = "recognize"
  /\ LET found == IF ocrData.ok THEN hasMaskTarget(ocrData) ELSE "threw"
         s == [scanner EXCEPT !.probed = found]
         started == processImage(s, hasCanvas, hasContext)
     IN IF found # "target"
        THEN /\ scanner' = [s EXCEPT !.probe[p] = "free"]
             /\ UNCHANGED <<camera, videoRef, status, isProcessing, isTargetDetected,
                            intervalId, consecutiveDetections, outbox, timers, discarded,
                            alive, worker, inbox>>
        ELSE IF started.pc # s.pc
        THEN /\ scanner' = [started EXCEPT !.probe[p] = "processImage", !.owner = p]
             /\ UNCHANGED <<camera, videoRef, status, isProcessing, isTargetDetected,
                            intervalId, consecutiveDetections, outbox, timers, discarded,
                            alive, worker, inbox>>
        ELSE stopCameraAndDetection([started EXCEPT !.probe[p] = "free"])
  /\ UNCHANGED <<created, detector, timersMade>>
  /\ ScannerRest

\* ------------------------------------------------------------------ VideoCapture component
\* OCR passes of the VideoCapture component that may be pending at once.
MaxPasses == 2
PassIds == 1..MaxPasses

\* The canvas of the template (canvasRef): drawn names the pass whose image
\* is on it (0: none), painted the passes whose regions applyBlur painted
\* over that image.
BlankCanvas == [drawn |-> 0, painted |-> {}]

\* The component before any click. pass[p] is the await pass p is suspended
\* at ("free": no such pass); capturedImage and maskedImage.of name the pass
\* that assigned them (0: null); ocrWorker is useOCR's worker; stream and
\* isStreaming are useCamera's; starting counts start() calls awaiting
\* getUserMedia, loads the uploaded files still being read.
NotCaptured ==
  [pass |-> [p \in PassIds |-> "free"], canvas |-> BlankCanvas, capturedImage |-> 0,
   maskedImage |-> [of |-> 0, canvas |-> BlankCanvas], isProcessing |-> FALSE,
   ocrWorker |-> FALSE, stream |-> FALSE, isStreaming |-> FALSE, starting |-> 0,
   loads |-> 0]

\* The passes that have drawn their image and not yet published it.
activePasses(c) == {p \in PassIds : c.pass[p] # "free"}

\* The id a pass that starts now gets: the lowest one not in use.
FreePass(p) ==
  /\ capture.pass[p] = "free"
  /\ \A q \in 1..(p - 1) : capture.pass[q] # "free"

\* captureImage and img.onload from the canvas resize on: setting the width
\* clears the canvas; with a 2d context the image is drawn, capturedImage
\* and isProcessing are set and initializeOCR() is awaited.
drawAndScan(c, p, hasContext) ==
  IF hasContext
  THEN [c EXCEPT !.canvas = [drawn |-> p, painted |-> {}],
                 !.capturedImage = p,
                 !.isProcessing = TRUE,
                 !.pass[p] = IF c.ocrWorker THEN "initialize" ELSE "createWorker"]
  ELSE [c EXCEPT !.canvas = BlankCanvas]

VideoCaptureRest == UNCHANGED <<coordinatorVars, detectorVars, maskVars, scanner, camera>>

\* The component is mounted: the template's video element, canvas and
\* buttons exist from here on.
VideoCaptureMounted ==
  /\ component = "videoCapture"
  /\ videoRef = "null"
  /\ videoRef' = "paused"
  /\ UNCHANGED <<component, consecutiveFrames, hostVars, platformVars, controllerVars,
                 obsVars, ev, detectorVars, maskVars, scannerVars>>

\* useCamera.start() called by the start button, which is disabled while
\* isStreaming: getUserMedia is awaited.
StartCamera ==
  /\ component = "videoCapture"
  /\ videoRef # "null"
  /\ ~capture.isStreaming
  /\ capture.starting < MaxStarts
  /\ capture' = [capture EXCEPT !.starting = @ + 1]
  /\ VideoCaptureRest

\* start(): getUserMedia settles. Resolved, the stream is kept and, with a
\* video element, isStreaming becomes true; rejected, start() rejects.
CameraStarted(ok) ==
  /\ component = "videoCapture"
  /\ capture.starting > 0
  /\ capture' = IF ok
                THEN [capture EXCEPT !.starting = @ - 1, !.stream = TRUE,
                                     !.isStreaming = (@ \/ videoRef # "null")]
                ELSE [capture EXCEPT !.starting = @ - 1]
  /\ VideoCaptureRest

\* useCamera.stop() called by the stop button, which is disabled unless
\* isStreaming.
StopCamera ==
  /\ component = "videoCapture"
  /\ capture.isStreaming
  /\ capture' = IF capture.stream
                THEN [capture EXCEPT !.stream = FALSE, !.isStreaming = FALSE]
                ELSE capture
  /\ VideoCaptureRest

\* captureImage() called by the capture button, which is disabled unless
\* isStreaming.
CaptureImage(p, hasContext) ==
  /\ component = "videoCapture"
  /\ videoRef # "null"
  /\ capture.isStreaming
  /\ FreePass(p)
  /\ capture' = drawAndScan(capture, p, hasContext)
  /\ VideoCaptureRest

\* handleFileUpload() for a chosen file: the FileReader starts reading it.
HandleFileUpload ==
  /\ component = "videoCapture"
  /\ videoRef # "null"
  /\ capture.loads < MaxPasses
  /\ capture' = [capture EXCEPT !.loads = @ + 1]
  /\ VideoCaptureRest

\* reader.onload and then img.onload of an uploaded file.
ImageLoaded(p, hasContext) ==
  /\ component = "videoCapture"
  /\ capture.loads > 0
  /\ FreePass(p)
  /\ capture' = [drawAndScan(capture, p, hasContext) EXCEPT !.loads = @ - 1]
  /\ VideoCaptureRest

\* A pass: initializeOCR() settles. Rejected, the handler ends with it.
PassInitializeDone(p, ok) ==
  /\ component = "videoCapture"
  /\ capture.pass[p] \in {"createWorker", "initialize"}
  /\ ok \/ capture.pass[p] = "createWorker"
  /\ capture' = IF ok
                THEN [capture EXCEPT !.pass[p] = "recognize", !.ocrWorker = TRUE]
                ELSE [capture EXCEPT !.pass[p] = "free"]
  /\ VideoCaptureRest

\* A pass: recognize(canvas) settles. Resolved, applyMask paints the regions
\* it finds on the canvas (an error inside it is caught there), maskedImage
\* becomes a copy of the canvas and isProcessing false; rejected, the handler
\* ends with it.
PassRecognizeDone(p, ocrData) ==
  /\ component = "videoCapture"
  /\ capture.pass[p] = "recognize"
  /\ capture' =
       IF ocrData.ok
       THEN LET canvas == IF hasMaskTarget(ocrData) = "target"
                          THEN [capture.canvas EXCEPT !.painted = @ \cup {p}]
                          ELSE capture.canvas
            IN [capture EXCEPT !.canvas = canvas,
                               !.maskedImage = [of |-> p, canvas |-> canvas],
                               !.isProcessing = FALSE,
                               !.pass[p] = "free"]
       ELSE [capture EXCEPT !.pass[p] = "free"]
  /\ VideoCaptureRest

\* ------------------------------------------------------------------ specification
\* The coordinators before start.
CoordinatorInit ==
  /\ status = Idle
  /\ isProcessing = FALSE
  /\ isTargetDetected = FALSE
  /\ worker = NULL
  /\ intervalId = NULL
  /\ consecutiveDetections = 0
  /\ videoRef = "null"
  /\ created = {}
  /\ alive = {}
  /\ detector = {}
  /\ inbox = [w \in WorkerIds |-> <<>>]
  /\ outbox = [w \in WorkerIds |-> <<>>]
  /\ timers = {}
  /\ timersMade = 0
  /\ ac_isCapturing = FALSE
  /\ ac_consecutiveDetections = 0
  /\ ac_lastDetectionTime = 0
  /\ ac_animationFrameId = NULL
  /\ ac_srcMatDeleted = FALSE
  /\ progress = 0
  /\ raf = {}
  /\ clock = 0
  /\ recent = <<>>
  /\ captures = 0
  /\ missed = FALSE
  /\ discarded = {}
  /\ ev = NoEv

\* A detector that has analysed nothing yet.
DetectorInit ==
  /\ contours = <<>>
  /\ analysed = 0
  /\ result = NoResult
  /\ heap = EmptyHeap

\* A scanner and a VideoCapture component that have captured nothing, and a
\* camera that was never started.
ScannerInit ==
  /\ scanner = NotScanned
  /\ camera = NotStarted
  /\ capture = NotCaptured

\* A masking engine that has combined nothing yet.
MaskInit ==
  /\ words = <<>>
  /\ combined = NotCombined
  /\ masked = NotMasked
  /\ ocrText = <<>>
  /\ docType = NotClassified

Init ==
  /\ component \in {"useAutoCapture", "controller"}
  /\ consecutiveFrames \in 1..MaxConsecutiveFrames
  /\ CoordinatorInit
  /\ options = defaultOptions
  /\ host = "worker"
  /\ DetectorInit
  /\ MaskInit
  /\ ScannerInit

Next ==
  \/ StartDetect
  \/ StopDetect
  \/ \E w \in WorkerIds : OnInitDone(w)
  \/ \E w \in WorkerIds : OnDetectionResult(w)
  \/ \E t \in timers, f \in Frames, ctxOk \in BOOLEAN : RunDetectionFrame(t, f, ctxOk)
  \/ \E v \in VideoStates : SetVideo(v)
  \/ \E w \in WorkerIds : WorkerInit(w)
  \/ \E w \in WorkerIds : WorkerDetect(w)
  \/ AcStart
  \/ AcStop
  \/ AcDestroy
  \/ \E h \in raf, f \in ControllerFrames, ctxOk \in BOOLEAN : AcLoop(h, f, ctxOk)
  \/ AcClock

Spec == Init /\ [][Next]_vars

\* Scheduling of the worker-backed coordinator: the interval timer keeps
\* firing while it is live, the worker's event loop handles every message
\* queued for it, and every message the worker posted is delivered to
\* onmessage. Calls by the owner (startDetect, stopDetect) and changes of the
\* video element are not forced.
Tick == \E t \in timers, f \in Frames, ctxOk \in BOOLEAN : RunDetectionFrame(t, f, ctxOk)
FairSpec ==
  /\ Spec
  /\ WF_vars(Tick)
  /\ WF_vars(\E w \in WorkerIds : WorkerInit(w))
  /\ WF_vars(\E w \in WorkerIds : WorkerDetect(w))
  /\ WF_vars(\E w \in WorkerIds : OnInitDone(w))
  /\ WF_vars(\E w \in WorkerIds : OnDetectionResult(w))

\* The detector, run frame after frame by one of its hosts.
DetectorSpecInit ==
  /\ component = "detector"
  /\ consecutiveFrames = 1
  /\ CoordinatorInit
  /\ options \in OptionChoices
  /\ host \in Hosts
  /\ DetectorInit
  /\ MaskInit
  /\ ScannerInit

DetectorNext ==
  \/ \E c \in ContourShapes : GrabContour(c)
  \/ \E fault \in FaultsFor(contours) : WorkerFrame(fault)
  \/ \E fault \in FaultsFor(contours) : ControllerFrame(fault)
  \/ NextFrame

DetectorSpec == DetectorSpecInit /\ [][DetectorNext]_vars

\* combineWords applied to an OCR word list.
MaskSpecInit ==
  /\ component = "masking"
  /\ consecutiveFrames = 1
  /\ CoordinatorInit
  /\ options = defaultOptions
  /\ host = "worker"
  /\ DetectorInit
  /\ MaskInit
  /\ ScannerInit

MaskNext ==
  \/ \E w \in Words : OcrWord(w)
  \/ \E i \in 1..MaxWords : CombineWords(i)
  \/ \E ps \in PatternLists : FindMaskRegions(ps)

MaskSpec == MaskSpecInit /\ [][MaskNext]_vars

\* detectDocumentType applied to the text of an OCR pass.
ClassifierSpecInit ==
  /\ component = "classifier"
  /\ consecutiveFrames = 1
  /\ CoordinatorInit
  /\ options = defaultOptions
  /\ host = "worker"
  /\ DetectorInit
  /\ MaskInit
  /\ ScannerInit

ClassifierNext ==
  \/ \E tok \in Tokens : OcrText(tok)
  \/ DetectDocumentType

ClassifierSpec == ClassifierSpecInit /\ [][ClassifierNext]_vars

\* The scanner component with its camera and its OCR and masking pipeline.
ScannerSpecInit ==
  /\ component = "scanner"
  /\ consecutiveFrames = 1
  /\ CoordinatorInit
  /\ options = defaultOptions
  /\ host = "worker"
  /\ DetectorInit
  /\ MaskInit
  /\ ScannerInit

ScannerNext ==
  \/ Mounted
  \/ \E a \in StartIds : StartCameraAndDetection(a)
  \/ \E a \in StartIds, ok, ready \in BOOLEAN : GetUserMediaDone(a, ok, ready)
  \/ \E a \in StartIds, ok, ready \in BOOLEAN : PlayDone(a, ok, ready)
  \/ LoadedMetadata
  \/ StopCameraAndDetection
  \/ \E fromCamera, hasCanvas, hasContext \in BOOLEAN :
       ProcessImage(fromCamera, hasCanvas, hasContext)
  \/ \E ok \in BOOLEAN : InitializeDone(ok)
  \/ \E ocrData \in OcrOutcomes, paintFault \in BOOLEAN : RecognizeDone(ocrData, paintFault)

ScannerSpec == ScannerSpecInit /\ [][ScannerNext]_vars

\* OCR passes that succeed: recognize() resolves with well-formed blocks.
Scans == {o \in OcrOutcomes : o.ok /\ o.blocks}

\* The scanner component with auto-capture, where nothing fails: the camera
\* is acquired, the hidden canvas is available and every OCR pass succeeds.
\* The detection loop becomes ready after startDetect(), and its capture
\* calls the onCapture callback.
AutoScanNext ==
  \/ Mounted
  \/ \E a \in StartIds : StartCameraAndDetection(a)
  \/ \E a \in StartIds, ready \in BOOLEAN : GetUserMediaDone(a, TRUE, ready)
  \/ \E a \in StartIds, ready \in BOOLEAN : PlayDone(a, TRUE, ready)
  \/ LoadedMetadata
  \/ StopCameraAndDetection
  \/ \E fromCamera \in BOOLEAN : ProcessImage(fromCamera, TRUE, TRUE)
  \/ InitializeDone(TRUE)
  \/ \E ocrData \in Scans : RecognizeDone(ocrData, FALSE)
  \/ \E w \in WorkerIds : DetectionReady(w)
  \/ \E p \in ProbeIds : AutoCapture(p)
  \/ \E p \in ProbeIds : ProbeInitializeDone(p, TRUE)
  \/ \E p \in ProbeIds, ocrData \in Scans : ProbeRecognizeDone(p, ocrData, TRUE, TRUE)

AutoScanSpec == ScannerSpecInit /\ [][AutoScanNext]_vars

\* What the browser and the workers do by themselves once it is their turn:
\* promises settle, the video element and the workers post their events.
\* The user's clicks and what the camera sees (a card that triggers an
\* auto-capture) are not forced.
FairAutoScanSpec ==
  /\ AutoScanSpec
  /\ WF_vars(\E a \in StartIds, ready \in BOOLEAN : GetUserMediaDone(a, TRUE, ready))
  /\ WF_vars(\E a \in StartIds, ready \in BOOLEAN : PlayDone(a, TRUE, ready))
  /\ WF_vars(LoadedMetadata)
  /\ WF_vars(InitializeDone(TRUE))
  /\ WF_vars(\E ocrData \in Scans : RecognizeDone(ocrData, FALSE))
  /\ WF_vars(\E w \in WorkerIds : DetectionReady(w))
  /\ WF_vars(\E p \in ProbeIds : ProbeInitializeDone(p, TRUE))
  /\ WF_vars(\E p \in ProbeIds, ocrData \in Scans : ProbeRecognizeDone(p, ocrData, TRUE, TRUE))

\* The VideoCapture component under the user's clicks.
VideoCaptureInit ==
  /\ component = "videoCapture"
  /\ consecutiveFrames = 1
  /\ CoordinatorInit
  /\ options = defaultOptions
  /\ host = "worker"
  /\ DetectorInit
  /\ MaskInit
  /\ ScannerInit

VideoCaptureNext ==
  \/ VideoCaptureMounted
  \/ StartCamera
  \/ \E ok \in BOOLEAN : CameraStarted(ok)
  \/ StopCamera
  \/ \E p \in PassIds, hasContext \in BOOLEAN : CaptureImage(p, hasContext)
  \/ HandleFileUpload
  \/ \E p \in PassIds, hasContext \in BOOLEAN : ImageLoaded(p, hasContext)
  \/ \E p \in PassIds, ok \in BOOLEAN : PassInitializeDone(p, ok)
  \/ \E p \in PassIds, ocrData \in OcrOutcomes : PassRecognizeDone(p, ocrData)

VideoCaptureSpec == VideoCaptureInit /\ [][VideoCaptureNext]_vars


\* ------------------------------------------------------------------ claims
UseAutoCapture == component = "useAutoCapture"
Controller == component = "controller"

\* The last n entries of s exist and are all TRUE.
AllFound(s, n) == Len(s) >= n /\ \A i \in (Len(s) - n + 1)..Len(s) : s[i]

\* The n-th entry from the end is the first of its run of TRUE entries.
RunStartsAt(s, n) == Len(s) = n \/ ~s[Len(s) - n]

\* The coordinator as stopDetect leaves it: no timer, no worker.
LoopStopped ==
  /\ status = Idle
  /\ intervalId = NULL
  /\ timers = {}
  /\ worker = NULL
  /\ alive = {}

C2_ResetOnMiss ==
  /\ (ev.op = "detection-result" /\ ~ev.found) => consecutiveDetections = 0
  /\ (ev.op = "ac-loop-result" /\ ~ev.found) => ac_consecutiveDetections = 0
  /\ ev.captured => AllFound(recent, consecutiveFrames)

\* C2 witness: in the controller, with consecutiveFrames = 3, a found:false
\* result was followed by three found:true results and the capture fired.
C2_Witness ==
  /\ Controller
  /\ consecutiveFrames = 3
  /\ ev.op = "ac-loop-result"
  /\ ev.captured
  /\ recent = <<FALSE, TRUE, TRUE, TRUE>>

\* Number of detect requests and detection results pending at worker w.
InFlight(w) ==
  Cardinality({i \in 1..Len(inbox[w]) : inbox[w][i].type = "detect"})
  + Cardinality({i \in 1..Len(outbox[w]) : outbox[w][i].type = "detection-result"})

RECURSIVE SumInFlight(_)
SumInFlight(W) ==
  IF W = {} THEN 0
  ELSE LET w == CHOOSE x \in W : TRUE IN InFlight(w) + SumInFlight(W \ {w})

InFlightTotal == SumInFlight(WorkerIds)

\* C3: in every reachable state of useAutoCapture at most one detect request
\* (or its result) is in flight over all workers, a request in flight implies
\* isProcessing, and a tick posts a detect only when isProcessing was false.
C3_AtMostOneInFlight ==
  UseAutoCapture =>
    /\ InFlightTotal <= 1
    /\ InFlightTotal = 1 => isProcessing
    /\ (ev.op = "tick-send" /\ ev.sent) => (~ev.busy /\ InFlightTotal = 1)

\* C3 witness: in a second session, a tick found the video playing but a
\* detect outstanding, and sent nothing.
C3_Witness ==
  /\ UseAutoCapture
  /\ worker = 2
  /\ ev.op = "tick-skip"
  /\ ev.busy
  /\ videoRef = "playing"
  /\ InFlightTotal = 1

TickOps == {"tick-skip", "tick-throw", "tick-send"}

\* C4: a timer tick taken while a detection is outstanding, or while the
\* video is missing, paused, ended or without dimensions, posts nothing and
\* changes no coordinator, worker, port or timer state.
C4_SkippedTickNoEffect ==
  [][(ev'.op \in TickOps /\ (isProcessing \/ videoRef # "playing"))
       => (/\ ev'.op = "tick-skip"
           /\ UNCHANGED <<hostVars, platformVars, videoRef, obsVars>>)]_vars

\* C4 witness: a tick was skipped on a paused video in the middle of a streak
\* (counter 1, target detected), with no detection outstanding.
C4_Witness ==
  /\ UseAutoCapture
  /\ ev.op = "tick-skip"
  /\ ~ev.busy
  /\ videoRef = "paused"
  /\ consecutiveDetections = 1
  /\ isTargetDetected
  /\ status = Detecting

\* C5: stopDetect() can be called in every state and always leaves the timer
\* cancelled, the worker terminated and null, status Idle, isProcessing and
\* isTargetDetected false and the counter 0; a second call changes nothing.
C5_StopDetectResets ==
  /\ [](UseAutoCapture => ENABLED StopDetect)
  /\ [](ev.op = "stopDetect"
          => /\ LoopStopped
             /\ ev.w \notin alive
             /\ ~isProcessing
             /\ ~isTargetDetected
             /\ consecutiveDetections = 0)
  /\ [][(ev.op = "stopDetect" /\ ev'.op = "stopDetect")
          => UNCHANGED <<hostVars, platformVars, videoRef, obsVars>>]_vars

\* C5 witness: stopDetect() ran while Detecting with a detection outstanding.
C5_Witness ==
  /\ UseAutoCapture
  /\ ev.op = "stopDetect"
  /\ ev.busy
  /\ ev.was = Detecting
  /\ ev.w # NULL
  /\ LoopStopped

\* C6: startDetect() while a worker exists changes nothing, and there is never
\* more than one live worker nor more than one live interval timer; the live
\* ones are those the coordinator holds.
C6_SingleWorkerAndTimer ==
  /\ [](UseAutoCapture
          => /\ Cardinality(alive) <= 1
             /\ Cardinality(timers) <= 1
             /\ alive \subseteq {worker}
             /\ timers \subseteq {intervalId})
  /\ [][(ev'.op = "startDetect" /\ worker # NULL)
          => UNCHANGED <<hostVars, platformVars, videoRef, obsVars>>]_vars

\* C6 witness: startDetect() was called, as a no-op, in a running session.
C6_Witness ==
  /\ UseAutoCapture
  /\ ev.op = "startDetect"
  /\ ev.w = NULL
  /\ ev.was = Detecting
  /\ worker # NULL
  /\ timers # {}

\* The init request of worker w, or its acknowledgement, is still pending.
InitPending(w) ==
  \/ \E i \in 1..Len(inbox[w]) : inbox[w][i].type = "init"
  \/ \E i \in 1..Len(outbox[w]) : outbox[w][i].type = "init-done"

\* C7: status becomes Detecting, and an interval timer is created, only in
\* the init-done handler of the current worker; while the current worker's
\* init-done is pending, status is Idle, there is no timer and no detect has
\* been sent; a terminated worker has no message left, so a session stopped
\* before init-done never reaches Detecting.
C7_DetectingOnlyAfterInitDone ==
  /\ [](UseAutoCapture
          => /\ status = Detecting
                  => (worker \in alive /\ worker \in detector /\ ~InitPending(worker))
             /\ (worker # NULL /\ InitPending(worker))
                  => (status = Idle /\ timers = {} /\ InFlightTotal = 0)
             /\ \A w \in WorkerIds \ alive : inbox[w] = <<>> /\ outbox[w] = <<>>)
  /\ [][((status' = Detecting /\ status # Detecting) \/ ~(timers' \subseteq timers)
         \/ ev'.op = "init-done")
          => (ev'.op = "init-done" /\ worker # NULL /\ ev'.w = worker)]_vars

\* C7 witness: stopDetect() was called before init-done was delivered, the
\* worker having already handled init.
C7_Witness ==
  /\ UseAutoCapture
  /\ ev.op = "stopDetect"
  /\ ev.was = Idle
  /\ ev.w # NULL
  /\ ev.w \in detector
  /\ status = Idle

\* C8: the detection worker posts exactly one init-done for every init and
\* exactly one detection-result for every detect handled after an init, as the
\* last message of its port (replies leave in the order the requests came).
C8_OneReplyPerRequest ==
  /\ ev.op = "worker-init"
       => (ev.sent /\ outbox[ev.w][Len(outbox[ev.w])] = InitDoneMsg)
  /\ (ev.op = "worker-detect" /\ ev.w \in detector)
       => (ev.sent /\ outbox[ev.w][Len(outbox[ev.w])].type = "detection-result")

\* C9: a result (or request) pending when stopDetect() ran is never handled:
\* no message is pending for or from a worker other than the current one, and
\* the detection-result handler only ever runs for the current, live worker,
\* also after startDetect() has begun a new session.
C9_NoStaleResult ==
  /\ [](UseAutoCapture
          => \A w \in WorkerIds :
               w # worker => (inbox[w] = <<>> /\ outbox[w] = <<>>))
  /\ [][ev'.op = "detection-result"
          => (worker # NULL /\ ev'.w = worker /\ worker \in alive)]_vars

\* C9 witness: session 1 was stopped with a detection pending, and session 2
\* has just handled a result of its own worker.
C9_Witness ==
  /\ UseAutoCapture
  /\ 1 \in discarded
  /\ worker = 2
  /\ ev.op = "detection-result"
  /\ ev.w = 2

\* C10: in useAutoCapture the detection loop is already stopped (timer
\* cancelled, worker terminated, status Idle) when the capture callback runs.
C10_StoppedBeforeCallback ==
  (UseAutoCapture /\ ev.captured) => ~ev.cbLoop

\* A frame's processing has just failed outside the detector: downsampling
\* raised on the host, or the worker handled a detect without replying.
FrameFailed ==
  /\ UseAutoCapture
  /\ \/ ev.op = "tick-throw"
     \/ ev.op = "worker-detect" /\ ev.w \in detector /\ ~ev.sent

\* C12: after a frame whose processing failed, isProcessing is eventually
\* cleared (so that a later tick can dispatch a frame) unless the session
\* leaves Detecting.
C12_FailedFrameDoesNotStall ==
  [](FrameFailed /\ status = Detecting /\ isProcessing
       => <>(~isProcessing \/ status # Detecting))

\* ------------------------------------------------------------------ claims on the detector
\* A frame has been handled in a detector behaviour.
FrameDone == component = "detector" /\ result.done

\* C11: IdCardDetector.detect never throws: whichever stage raises (the
\* preprocessing, findContours, or the processing of some contour), the call
\* returns, and it returns found:false without a candidate.
C11_DetectNeverThrows ==
  FrameDone =>
    /\ ~result.threw
    /\ result.fault.stage # "none" => (~result.found /\ result.candidate = 0)

\* C11 witness: a cv call raised on the second contour after a perfect card
\* had become the best candidate, and detect returned found:false.
C11_Witness ==
  /\ FrameDone
  /\ contours = <<Card, Card>>
  /\ result.fault = Fault("contour", 2)
  /\ result.scores = <<calculateScore(options, 1586, RightAngles), -1>>
  /\ ~result.found

\* C13: when detect returns, every buffer allocated during the call has been
\* released, except the contour of the candidate it returns: on success, when
\* every contour is rejected, when the best candidate does not exceed
\* minDetectionScore, and when a stage raises.
C13_BuffersReleased ==
  FrameDone =>
    result.live \subseteq
      (IF result.found THEN {Buf("best", result.candidate)} ELSE {})

\* C14: in both hosts, after each frame handled, the frame matrix made for it
\* and the contour of the candidate detect returned have been released, so
\* that neither accumulates over the frames handled.
C14_HostsReleasePerFrame ==
  FrameDone => (heap.frameMat = 0 /\ heap.candidate = 0)

\* C15: under the default options a frame whose only contour is a square
\* (four right angles, aspect ratio 1.0) gets ratioScore 0, so that its score
\* is the angle part alone, and detect reports found:false.
C15_SquareNotFound ==
  (/\ FrameDone
   /\ options = defaultOptions
   /\ result.fault = NoFault
   /\ contours = <<Square>>)
    => /\ RatioScoreNum(options, aspectRatio(Square)) = 0
       /\ result.scores[1]
            = AngleScoreNum(options, RightAngles) * RatioDen(options)
                * options.scoreWeightAngle
       /\ ~result.found

\* scoreWeightRatio + scoreWeightAngle, in the unit of the scores.
FullScore == (options.scoreWeightRatio + options.scoreWeightAngle) * ScoreDen(options)

\* Contour i of the frame handled reached _calculateScore.
Scored(i) == i \in 1..Len(result.scores) /\ result.scores[i] # -1

\* C16: every scored contour whose aspect ratio equals targetRatio and whose
\* four angles are 90 gets the score scoreWeightRatio + scoreWeightAngle, and
\* no scored contour gets more.
C16_PerfectScoreIsMaximum ==
  FrameDone =>
    \A i \in 1..Len(contours) :
      Scored(i) =>
        /\ result.scores[i] <= FullScore
        /\ (/\ aspectRatio(contours[i]) = options.targetRatio
            /\ contours[i].angles = RightAngles)
             => result.scores[i] = FullScore

\* C16 witness: an upright target-ratio rectangle got the full score after a
\* slanted one had got less.
C16_Witness ==
  /\ FrameDone
  /\ contours = <<SlantedCard, PortraitCard>>
  /\ Scored(1)
  /\ result.scores[1] < FullScore
  /\ result.scores[2] = FullScore
  /\ result.candidate = 2

\* Contour c has a corner angle below minAngle or above maxAngle.
AngleOutOfRange(c) ==
  \E k \in 1..4 : c.angles[k] < options.minAngle \/ c.angles[k] > options.maxAngle

\* Contour i of the frame handled became the best candidate at some point:
\* it is the one returned, or its clone is still allocated.
EverBest(i) == result.candidate = i \/ Buf("best", i) \in result.live

\* C17: a convex 4-vertex polygon with a corner angle outside
\* [minAngle, maxAngle] is never scored and never becomes the best candidate,
\* whatever its aspect ratio.
C17_AngleGateBeforeScore ==
  FrameDone =>
    \A i \in 1..Len(contours) :
      (contours[i].rows = 4 /\ contours[i].convex /\ AngleOutOfRange(contours[i]))
        => (~Scored(i) /\ ~EverBest(i))

\* C17 witness: a target-ratio quadrilateral with a corner of 111 degrees was
\* passed over, and the card after it was scored and returned.
C17_Witness ==
  /\ FrameDone
  /\ contours = <<WideCorner, Card>>
  /\ aspectRatio(WideCorner) = options.targetRatio
  /\ result.scores = <<-1, FullScore>>
  /\ result.found
  /\ result.candidate = 2

\* C18: a contour whose area is below the floor of 1000 pixels is never
\* scored and never becomes a candidate, even a target-ratio rectangle, under
\* every choice of options (the floor is not one of them).
C18_AreaFloor ==
  FrameDone =>
    /\ "minPixelArea" \notin DOMAIN options
    /\ \A i \in 1..Len(contours) :
         contours[i].area < 1000 => (~Scored(i) /\ ~EverBest(i))

\* C18 witness: a target-ratio rectangle of area 999 was the only contour,
\* under overridden options, and nothing was found.
C18_Witness ==
  /\ FrameDone
  /\ options # defaultOptions
  /\ contours = <<TinyCard>>
  /\ TinyCard.area = 999
  /\ aspectRatio(TinyCard) = options.targetRatio
  /\ result.fault = NoFault
  /\ result.scores = <<-1>>
  /\ ~result.found

\* Contour i of the frame handled passes the area, 4-vertex-convex and angle
\* gates.
PassesGates(i) ==
  /\ contours[i].area >= 1000
  /\ contours[i].rows = 4
  /\ contours[i].convex
  /\ ~AngleOutOfRange(contours[i])
GatedContours == {i \in 1..Len(contours) : PassesGates(i)}
ScoreOf(i) == calculateScore(options, aspectRatio(contours[i]), contours[i].angles)

TwiceCentre(w) == w.bbox.y0 + w.bbox.y1

\* C20: whatever the word list (words with empty text included), combineWords
\* joins at most 3 words from a start index, and never joins two words whose
\* vertical centres differ by more than 10 pixels.
C20_CombineLimits ==
  (component = "masking" /\ combined.done) =>
    /\ Len(combined.joined) <= 3
    /\ \A k \in 1..(Len(combined.joined) - 1) :
         Abs(TwiceCentre(words[combined.joined[k]])
             - TwiceCentre(words[combined.joined[k + 1]])) <= 2 * 10

\* The OCR pass holds the two halves of a resident registration number,
\* "123456-" and then "1234567", on one line and a small gap apart.
TwoTokenNumber ==
  /\ Len(words) = 2
  /\ words[1].text = <<"1", "2", "3", "4", "5", "6", "-">>
  /\ words[2].text = <<"1", "2", "3", "4", "5", "6", "7">>
  /\ words[1].bbox.y0 = words[2].bbox.y0
  /\ words[2].bbox.x0 - words[1].bbox.x1 \in 0..5
ResidentPatternListed ==
  \E k \in 1..Len(masked.patterns) : masked.patterns[k] = patternList[1]

\* C21: for the two adjacent tokens "123456-" and "1234567" on one line and
\* the resident registration pattern in the list, findMaskRegions returns
\* exactly one region, with x = box.x0 + 7 * (box width / 14), width =
\* 7 * (box width / 14), y = box.y0 and height = box height, box being the
\* bounding box of the two tokens together.
C21_ResidentNumberRegion ==
  (masked.calls >= 1 /\ TwoTokenNumber /\ ResidentPatternListed) =>
    /\ Len(masked.regions) = 1
    /\ LET r == masked.regions[1]
           x0 == words[1].bbox.x0
           width == words[2].bbox.x1 - words[1].bbox.x0
       IN /\ r.xTimes * 14 = r.unit * (x0 * 14 + 7 * width)
          /\ r.wTimes * 14 = r.unit * (7 * width)
          /\ r.y = Min(words[1].bbox.y0, words[2].bbox.y0)
          /\ r.h = Max(words[1].bbox.y1, words[2].bbox.y1)
                   - Min(words[1].bbox.y0, words[2].bbox.y0)
C21_Witness ==
  /\ masked.calls >= 1
  /\ TwoTokenNumber
  /\ ResidentPatternListed
  /\ Len(masked.regions) = 1

\* C22: a region is the part of the field's bounding box that starts
\* startIndex characters in and spans blurCount characters, and with
\* blurCount 0 it is the whole bounding box, x = x0 and width = x1 - x0,
\* whatever startIndex is.
C22_RegionOfField ==
  \A m \in 1..Len(masked.regions) :
    LET r == masked.regions[m]
        box == masked.matches[m].combined.combinedBbox
        pattern == masked.matches[m].pattern
        width == box.x1 - box.x0
    IN IF pattern.blurCount = 0
       THEN r.xTimes = r.unit * box.x0 /\ r.wTimes = r.unit * width
       ELSE /\ r.xTimes = r.unit * box.x0 + pattern.startIndex * width
            /\ r.wTimes = pattern.blurCount * width

\* The regions that came from the start index i.
MatchesAt(i) ==
  {m \in 1..Len(masked.matches) : masked.matches[m].combined.startIndex = i}
JoinedBy(m) ==
  {masked.matches[m].combined.joined[n] : n \in 1..Len(masked.matches[m].combined.joined)}

\* C23: after a match on the tokens i..k findMaskRegions starts next at
\* k + 1, so no token is part of two regions; after a start at i without a
\* match it starts next at i + 1.
C23_ScanAdvance ==
  /\ \A n \in 1..(Len(masked.starts) - 1) :
       LET i == masked.starts[n]
       IN IF MatchesAt(i) # {}
          THEN \A m \in MatchesAt(i) :
                 masked.starts[n + 1]
                   = masked.matches[m].combined.joined[Len(masked.matches[m].combined.joined)] + 1
          ELSE masked.starts[n + 1] = i + 1
  /\ \A m1, m2 \in 1..Len(masked.matches) :
       m1 # m2 => JoinedBy(m1) \cap JoinedBy(m2) = {}
C23_Witness ==
  /\ Len(masked.matches) >= 1
  /\ \E n \in 1..(Len(masked.starts) - 1) : MatchesAt(masked.starts[n]) # {}

TypeIndexes == 1..Len(DocumentTypes)
KeywordsOf(k) == {keywords[DocumentTypes[k]][n] : n \in 1..Len(keywords[DocumentTypes[k]])}
HoldsKeyword(upper, kw) ==
  \E i \in 1..Len(upper) :
    i + Len(kw) - 1 <= Len(upper) /\ \A n \in 1..Len(kw) : upper[i + n - 1] = kw[n]
HoldsCharactersOf(upper, kw) ==
  \A n \in 1..Len(kw) : \E i \in 1..Len(upper) : upper[i] = kw[n]
HoldsKeywordOf(upper, k) == \E kw \in KeywordsOf(k) : HoldsKeyword(upper, kw)
HoldsNoCharactersOf(upper, k) == \A kw \in KeywordsOf(k) : ~HoldsCharactersOf(upper, kw)

\* C25 as stated: detectDocumentType returns null for every text that holds
\* no keyword of any document type as a substring.
C25_NoKeywordNoType ==
  docType.done =>
    LET upper == toUpperCase(ocrText)
    IN (\A k \in TypeIndexes : ~HoldsKeywordOf(upper, k)) => docType.type = NoType

\* C25, amended: detectDocumentType returns null for every text in which
\* each keyword of each document type has a character that occurs nowhere in
\* the text.
C25_NoCharactersNoType ==
  docType.done =>
    LET upper == toUpperCase(ocrText)
    IN (\A k \in TypeIndexes : HoldsNoCharactersOf(upper, k)) => docType.type = NoType
C25_Witness ==
  /\ docType.done
  /\ ocrText # <<>>
  /\ \A k \in TypeIndexes : HoldsNoCharactersOf(toUpperCase(ocrText), k)
  /\ docType.type = NoType

\* C26 as stated: for every text that holds a keyword of the type T as a
\* substring and no keyword of another type as a substring,
\* detectDocumentType returns T.
C26_OnlyKeywordsOfType ==
  docType.done =>
    LET upper == toUpperCase(ocrText)
    IN \A k \in TypeIndexes :
         (/\ HoldsKeywordOf(upper, k)
          /\ \A other \in TypeIndexes \ {k} : ~HoldsKeywordOf(upper, other))
           => docType.type = DocumentTypes[k]

\* C26, amended: for every text that holds a keyword of the type T as a
\* substring and in which each keyword of every other type has a character
\* that occurs nowhere in the text, detectDocumentType returns T.
C26_OnlyCharactersOfType ==
  docType.done =>
    LET upper == toUpperCase(ocrText)
    IN \A k \in TypeIndexes :
         (/\ HoldsKeywordOf(upper, k)
          /\ \A other \in TypeIndexes \ {k} : HoldsNoCharactersOf(upper, other))
           => docType.type = DocumentTypes[k]
C26_Witness ==
  /\ docType.done
  /\ \E k \in TypeIndexes :
       /\ HoldsKeywordOf(toUpperCase(ocrText), k)
       /\ \A other \in TypeIndexes \ {k} : HoldsNoCharactersOf(toUpperCase(ocrText), other)
       /\ docType.type = DocumentTypes[k]

\* The scores of the types in their order, in halves: 2 for each keyword
\* the text holds, 1 for each other keyword whose characters it all holds.
RECURSIVE HalvesOver(_, _)
HalvesOver(upper, kws) ==
  IF kws = <<>> THEN 0
  ELSE (IF HoldsKeyword(upper, Head(kws)) THEN 2
        ELSE IF HoldsCharactersOf(upper, Head(kws)) THEN 1 ELSE 0)
       + HalvesOver(upper, Tail(kws))
RECURSIVE HalvesFrom(_, _)
HalvesFrom(upper, k) ==
  IF k > Len(DocumentTypes) THEN <<>>
  ELSE <<HalvesOver(upper, keywords[DocumentTypes[k]])>> \o HalvesFrom(upper, k + 1)
Halves == HalvesFrom(toUpperCase(ocrText), 1)

\* C27: detectDocumentType returns a type whose score is the maximum over
\* the types and above 0, the first such type in the order resident card,
\* passport, driving licence; it returns null exactly when every type scores 0.
C27_FirstMaximum ==
  docType.done =>
    LET h == Halves
        allZero == \A k \in TypeIndexes : h[k] = 0
    IN /\ docType.type = NoType <=> allZero
       /\ ~allZero =>
            \E k \in TypeIndexes :
              /\ docType.type = DocumentTypes[k]
              /\ \A j \in TypeIndexes : h[j] <= h[k]
              /\ \A j \in 1..(k - 1) : h[j] < h[k]
C27_Witness ==
  /\ docType.done
  /\ LET h == Halves
     IN \E j, k \in TypeIndexes :
          /\ j < k
          /\ h[j] = h[k]
          /\ h[k] > 0
          /\ \A n \in TypeIndexes : h[n] <= h[k]
          /\ docType.type = DocumentTypes[j]

\* C28: when the OCR engine throws during processImage (initializeOCR or
\* recognize rejects), no redaction rectangle is on the canvas, maskedImage is
\* null, the preview is hidden, the frame is red, and isProcessing is false
\* again, so that a later call of processImage starts an attempt.
C28_OcrFailureAbandonsAttempt ==
  scanner.outcome = "ocr threw" =>
    /\ scanner.painted = 0
    /\ scanner.maskedImage = NoImage
    /\ ~scanner.showPreview
    /\ scanner.frameColor = "red"
    /\ ~scanner.isProcessing
    /\ processImage(scanner, TRUE, TRUE).pc = initializeCall(scanner)
C28_Witness ==
  /\ scanner.outcome = "ocr threw"
  /\ scanner.ocrWorker
  /\ scanner.showMaskedOverlay

\* C29: when the masking step of a capture attempt raises an error, the
\* attempt ends in the non-success state (red frame, preview hidden) and no
\* masked image is published for it.
C29_MaskErrorPropagates ==
  (scanner.raised /\ scanner.pc = "idle") =>
    /\ scanner.maskedImage = NoImage
    /\ scanner.frameColor = "red"
    /\ ~scanner.showPreview

\* C30: when getUserMedia or play rejects, the camera status becomes Error
\* with an error set, isStreaming is false, and the step creates no
\* detection worker; while the status stays Error no detection worker is
\* created either.
C30_FailedAcquisition ==
  [][/\ (camera' # camera /\ camera'.last = "failed") =>
          /\ camera'.status = "error"
          /\ camera'.error
          /\ ~isStreaming(camera')
          /\ created' = created
          /\ worker' = worker
     /\ (camera.status = "error" /\ camera'.status = "error") =>
          /\ created' = created
          /\ worker' = worker]_vars
C30_Witness ==
  /\ camera.last = "failed"
  /\ camera.streamRef
  /\ camera.onloadedmetadata
  /\ created = {}

\* C32: in every reachable state of either coordinator the consecutive
\* counter lies in 0..consecutiveFrames, and every progress value
\* AutoCaptureController hands to onDetect lies in [0, 1] (its numerator over
\* consecutiveFrames lies in 0..consecutiveFrames).
C32_CounterAndProgressBounded ==
  /\ UseAutoCapture =>
       (0 <= consecutiveDetections /\ consecutiveDetections <= consecutiveFrames)
  /\ Controller =>
       /\ 0 <= ac_consecutiveDetections
       /\ ac_consecutiveDetections <= consecutiveFrames
       /\ 0 <= progress
       /\ progress <= consecutiveFrames

\* C35: in every reachable state of useAutoCapture, status is Detecting
\* exactly when the interval timer exists, Detecting implies that a worker
\* exists, status Idle implies isProcessing false, isTargetDetected false and
\* the consecutive counter 0, and status is Idle or Detecting.
C35_StatusInvariant ==
  UseAutoCapture =>
    /\ status \in {Idle, Detecting}
    /\ (status = Detecting) <=> (intervalId # NULL)
    /\ timers = IF intervalId = NULL THEN {} ELSE {intervalId}
    /\ status = Detecting => (worker # NULL /\ worker \in alive)
    /\ status = Idle =>
         (~isProcessing /\ ~isTargetDetected /\ consecutiveDetections = 0)

\* The loop is Detecting with a frame in flight and the counter above 0.
C35_Witness ==
  /\ UseAutoCapture
  /\ status = Detecting
  /\ isProcessing
  /\ isTargetDetected
  /\ consecutiveDetections > 0
  /\ Cardinality(created) = 2

\* C39: for an AutoCaptureController, across any sequence of start(), stop(),
\* destroy() calls and capture events, at most one requestAnimationFrame
\* callback of the loop is scheduled at a time, also when start() is called
\* right after the controller stopped itself at capture.
C39_SingleLoop ==
  Controller => Cardinality(raf) <= 1

\* The box combineWords builds for tokens i..k of the word list.
BoxOf(i, k) ==
  [x0 |-> words[i].bbox.x0,
   x1 |-> words[k].bbox.x1,
   y0 |-> CHOOSE y \in {words[j].bbox.y0 : j \in i..k} :
            \A j \in i..k : y <= words[j].bbox.y0,
   y1 |-> CHOOSE y \in {words[j].bbox.y1 : j \in i..k} :
            \A j \in i..k : y >= words[j].bbox.y1]

\* The whitespace-stripped texts of tokens i..k, concatenated.
RECURSIVE TextOf(_, _)
TextOf(i, k) ==
  IF i > k THEN <<>> ELSE stripSpaces(words[i].text) \o TextOf(i + 1, k)

\* Tokens i..k are consecutive tokens with text, at most
\* MAX_WORDS_TO_COMBINE of them, every adjacent pair combinable.
Run(i, k) ==
  /\ i <= k
  /\ k - i < MAX_WORDS_TO_COMBINE
  /\ \A j \in i..k : words[j].text # <<>>
  /\ \A j \in i..(k - 1) : canCombineWords(words[j], words[j + 1])

\* The patterns of the list of the last call that match the text.
HitsOf(t) == SelectSeq(masked.patterns, LAMBDA pat : regexTest(pat.regex, t))

\* C36: if the concatenation of the whitespace-stripped texts of consecutive
\* tokens i..k (at most 3, every adjacent pair combinable) matches a pattern
\* of the list, findMaskRegions returns a region derived from the bounding
\* box of tokens i..k, also when token k+1 exists and is combinable with
\* token k.
C36_MatchingRunMasked ==
  (component = "masking" /\ masked.calls > 0) =>
    \A i, k \in 1..Len(words) :
      (Run(i, k) /\ HitsOf(TextOf(i, k)) # <<>>) =>
        \E n \in 1..Len(masked.regions) :
          masked.regions[n] =
            createMaskRegion(TextOf(i, k), BoxOf(i, k), HitsOf(TextOf(i, k))[1])

\* C38: across any sequence of applyMask calls on one useMasking instance,
\* after each call has returned status is 'idle' or 'error', and status is
\* 'error' exactly when error is not null: a successful call after a failed
\* one leaves no error recorded.
C38_StatusMatchesError ==
  component = "scanner" =>
    /\ scanner.maskStatus \in {"idle", "error"}
    /\ (scanner.maskStatus = "error") <=> scanner.maskError

\* A pending start() call of useCamera goes on in this step: its await
\* settles.
Resumes(a) == camera.pending[a] # "free" /\ camera'.pending[a] # camera.pending[a]

\* getUserMedia hands a stream to the start() call a in this step.
Acquires(a) == camera.pending[a] = "getUserMedia" /\ Resumes(a) /\ camera'.streamRef

\* C33: after useCamera.stop() has been called, a start() that was pending at
\* that moment goes on with the camera status Idle and no stream held (no
\* acquired stream has live tracks); and a stream is acquired only while no
\* un-stopped stream is held, so that at most one acquired stream is
\* un-stopped at a time, under any interleaving of start and stop calls with
\* the asynchronous acquisition.
C33_StoppedStaysStopped ==
  [][component = "scanner" =>
       \A a \in StartIds :
         /\ (camera.last = "stopped" /\ Resumes(a)) =>
              (camera'.status = "idle" /\ ~camera'.streamRef)
         /\ Acquires(a) => ~camera.streamRef]_vars


\* C34: the useOCR instance of the scanner component never has more than one
\* Tesseract worker alive: every initialize() and recognize() call made while
\* the component is mounted reuses the worker the first call created.
\* (terminate() is called only when the component is unmounted, so every
\* worker created so far is alive.)
C34_SingleTesseractWorker ==
  component = "scanner" => scanner.tesseract <= 1


\* C37: in the scanner component, after an auto-capture whose frame has no
\* mask target, with the camera streaming and no masked image published, the
\* coordinator eventually is Detecting again, unless the camera stops
\* streaming or a masked image is published first.
NoTargetIdle ==
  /\ component = "scanner"
  /\ scanner.probed = "no target"
  /\ \A p \in ProbeIds : scanner.probe[p] = "free"
  /\ isStreaming(camera)
  /\ ~scanner.maskedImage.set
  /\ status = Idle
C37_DetectionResumes ==
  NoTargetIdle ~> (status = Detecting \/ ~isStreaming(camera) \/ scanner.maskedImage.set)


\* C31: in the VideoCapture component no two OCR passes are active at the
\* same time on the template's canvas: between the moment a capture or an
\* upload draws its image and the moment its masked image is published, no
\* other capture or upload has drawn on that canvas and is still pending.
C31_OnePassPerCanvas ==
  component = "videoCapture" => Cardinality(activePasses(capture)) <= 1

====
